---------------------------- MODULE Spec2Model ----------------------------
(***************************************************************************)
(* Model of src/server.js: the metadata discovery engine                   *)
(* (scanForMetadataFiles), the table reader (readCSV), the GPS extractor   *)
(* (extractGPSData) and the combined GPS view (/api/gps-data/combined).    *)
(*                                                                         *)
(* Paths are sequences of names relative to DATA_PATH.                     *)
(* Coordinates are whole degrees; NaN and null are tagged values.          *)
(***************************************************************************)
EXTENDS Integers, Sequences, FiniteSets, TLC

VARIABLES
    dirs,      \* the directories under DATA_PATH (set of paths); <<>> is DATA_PATH
    files,     \* the regular files under DATA_PATH (set of paths)
    content,   \* the rows of each CSV file: [path -> Seq(Row)]
    env,       \* what the filesystem did during the last call: listing order, faults
    input,     \* arguments of the last call of a pure function
    output,    \* result of the last call: settled promise, return value or response
    alive      \* FALSE once an unhandled 'error' event has terminated the process

vars == <<dirs, files, content, env, input, output, alive>>

(***************************************************************************)
(* Bounds of the model                                                     *)
(***************************************************************************)
MaxFiles == 3      \* number of files placed under DATA_PATH
MaxFaults == 1     \* number of failing readdir/stat calls in one scan
MaxRows == 2       \* number of rows handed to extractGPSData
MaxLogRows == 1    \* number of rows in F2/gps_log.csv
MaxTableRows == 1  \* number of rows in one metadata.csv of the combined view


Undefined == "undefined"
Null == "null"

(***************************************************************************)
(* Strings.  Two names are different strings (!==) when they are different *)
(* values; String.prototype.localeCompare compares collation keys, and     *)
(* canonically equivalent spellings of one word compare as 0: cafe_NFC     *)
(* stands for "caf" followed by U+00E9, cafe_NFD for "cafe" followed by    *)
(* U+0301, two distinct file names a directory can hold side by side.      *)
(***************************************************************************)
CollationOrder ==
    << {"A"}, {"B"}, {"cafe_NFC", "cafe_NFD"}, {"cam1"}, {"cam2"}, {"crack"},
       {"deep"}, {"F2"}, {"general"}, {"gps_logger"}, {"images"},
       {"notes.txt"}, {"pothole"}, {"thumbs"}, {"tracking"}, {"unknown"},
       {"x.jpg"}, {"Y.PNG"} >>

CollKey(s) == CHOOSE k \in 1..Len(CollationOrder) : s \in CollationOrder[k]

LocaleCompare(a, b) ==
    IF CollKey(a) < CollKey(b) THEN -1
    ELSE IF CollKey(a) > CollKey(b) THEN 1 ELSE 0

(***************************************************************************)
(* Array.prototype.sort as node runs it on arrays shorter than 32: find    *)
(* the initial run (reversed when strictly descending), then binary        *)
(* insertion of the remaining elements.  cmp is the comparefn, as the      *)
(* function from pairs of elements to its results.                         *)
(***************************************************************************)
Reverse(s) == [i \in 1..Len(s) |-> s[Len(s) + 1 - i]]

InsertAt(s, k, x) == SubSeq(s, 1, k - 1) \o <<x>> \o SubSeq(s, k, Len(s))

ArraySort(arr, cmp) ==
    LET n == Len(arr)
        descending == cmp[<<arr[2], arr[1]>>] < 0
        RECURSIVE RunEnd(_)
        RunEnd(k) ==
            IF k >= n THEN k
            ELSE LET order == cmp[<<arr[k + 1], arr[k]>>] IN
                 IF descending /\ order >= 0 THEN k
                 ELSE IF ~descending /\ order < 0 THEN k
                 ELSE RunEnd(k + 1)
        run == RunEnd(2)
        first == IF descending
                 THEN Reverse(SubSeq(arr, 1, run)) \o SubSeq(arr, run + 1, n)
                 ELSE arr
        RECURSIVE Search(_, _, _, _)
        Search(a, pivot, left, right) ==
            IF left >= right THEN left
            ELSE LET mid == left + ((right - left) \div 2) IN
                 IF cmp[<<pivot, a[mid]>>] < 0
                 THEN Search(a, pivot, left, mid)
                 ELSE Search(a, pivot, mid + 1, right)
        RECURSIVE Insertion(_, _)
        Insertion(a, start) ==
            IF start > n THEN a
            ELSE LET pivot == a[start]
                     left == Search(a, pivot, 1, start)
                 IN Insertion(InsertAt(SubSeq(a, 1, start - 1), left, pivot)
                                \o SubSeq(a, start + 1, n), start + 1)
    IN IF n < 2 THEN arr ELSE Insertion(first, run + 1)

(***************************************************************************)
(* path.join and String.prototype.split on relative paths                  *)
(***************************************************************************)
BasePath == <<>>

PathJoin(dir, item) == Append(dir, item)

\* relativePath.split(path.sep): the empty string splits into one empty segment
SplitPath(relativePath) ==
    IF relativePath = <<>> THEN <<"">> ELSE relativePath

\* a || b on strings: the empty string is falsy
OrElse(a, b) == IF a = "" THEN b ELSE a

(***************************************************************************)
(* scanForMetadataFiles                                                    *)
(***************************************************************************)
\* a variant that folds deeper trees into the type: the last segment, not the third
DeriveTripleLastSegment(pathParts) ==
    IF Len(pathParts) >= 3
    THEN [session |-> pathParts[1], camera |-> pathParts[2],
          anomalyType |-> pathParts[Len(pathParts)]]
    ELSE IF Len(pathParts) = 2
    THEN [session |-> pathParts[1], camera |-> pathParts[2],
          anomalyType |-> "general"]
    ELSE [session |-> OrElse(pathParts[1], "unknown"), camera |-> "unknown",
          anomalyType |-> "general"]

\* the triple of a metadata.csv found in the directory with segments pathParts
DeriveTriple(pathParts) ==
    IF Len(pathParts) >= 3
    THEN [session |-> pathParts[1], camera |-> pathParts[2],
          anomalyType |-> pathParts[3]]
    ELSE IF Len(pathParts) = 2
    THEN [session |-> pathParts[1], camera |-> pathParts[2],
          anomalyType |-> "general"]
    ELSE [session |-> OrElse(pathParts[1], "unknown"), camera |-> "unknown",
          anomalyType |-> "general"]

\* the object pushed on metadataFiles
CatalogEntry(fullPath, relPath, relativePath) ==
    LET pathParts == SplitPath(relativePath)
        t == DeriveTriple(pathParts)
    IN [path |-> fullPath, relativePath |-> relPath, session |-> t.session,
        camera |-> t.camera, anomalyType |-> t.anomalyType,
        depth |-> Len(pathParts)]

\* a variant that takes every CSV file for a metadata table
IsAnyCsvFile(item) == item \in {"metadata.csv", "gps_log.csv"}

\* item === 'metadata.csv'
IsMetadataFile(item) == item = "metadata.csv"

\* a variant without the catch block: the exception leaves scanDirectory
RethrowScanError(r) == r

\* the catch block of scanDirectory: log, and return normally
CatchScanError(r) == [threw |-> FALSE, files |-> r.files]

RECURSIVE ScanDirectory(_, _, _, _), ScanItems(_, _, _, _, _, _)

\* the for loop of scanDirectory from item i on; an exception leaves the loop
ScanItems(e, dirPath, relativePath, items, i, metadataFiles) ==
    IF i > Len(items) THEN [threw |-> FALSE, files |-> metadataFiles]
    ELSE LET item == items[i]
             fullPath == PathJoin(dirPath, item)
             relPath == PathJoin(relativePath, item)
         IN IF fullPath \in e.statFail
            THEN [threw |-> TRUE, files |-> metadataFiles]
            ELSE IF fullPath \in dirs
            THEN LET r == ScanDirectory(e, fullPath, relPath, metadataFiles)
                 IN IF r.threw THEN r
                    ELSE ScanItems(e, dirPath, relativePath, items, i + 1,
                                   r.files)
            ELSE IF IsMetadataFile(item)
            THEN ScanItems(e, dirPath, relativePath, items, i + 1,
                     Append(metadataFiles,
                            CatalogEntry(fullPath, relPath, relativePath)))
            ELSE ScanItems(e, dirPath, relativePath, items, i + 1,
                           metadataFiles)

\* scanDirectory: try { readdir; for ... } catch { log }
ScanDirectory(e, dirPath, relativePath, metadataFiles) ==
    CatchScanError(
        IF dirPath \notin dirs \/ dirPath \in e.readdirFail
        THEN [threw |-> TRUE, files |-> metadataFiles]
        ELSE ScanItems(e, dirPath, relativePath, e.listing[dirPath], 1,
                       metadataFiles))

\* the elements of an array
RangeOf(s) == {s[k] : k \in 1..Len(s)}

\* the comparefn of metadataFiles.sort
CompareEntries(a, b) ==
    IF a.session # b.session THEN LocaleCompare(a.session, b.session)
    ELSE IF a.camera # b.camera THEN LocaleCompare(a.camera, b.camera)
    ELSE LocaleCompare(a.anomalyType, b.anomalyType)

\* the promise scanForMetadataFiles(basePath) settles to, under environment e
ScanForMetadataFiles(e, basePath) ==
    LET r == ScanDirectory(e, basePath, <<>>, <<>>)
    IN IF r.threw THEN [state |-> "rejected", value |-> <<>>]
       ELSE [state |-> "fulfilled",
             value |-> ArraySort(r.files,
                          [p \in RangeOf(r.files) \X RangeOf(r.files) |->
                              CompareEntries(p[1], p[2])])]

(***************************************************************************)
(* The directory tree and the behaviour of the filesystem during a call    *)
(***************************************************************************)
CandidateFiles ==
    { <<"metadata.csv">>,
      <<"A", "metadata.csv">>,
      <<"A", "cam1", "metadata.csv">>,
      <<"A", "cam1", "crack", "metadata.csv">>,
      <<"A", "cam1", "crack", "deep", "metadata.csv">>,
      <<"A", "cam1", "crack", "images", "x.jpg">>,
      <<"B", "cam1", "pothole", "metadata.csv">>,
      <<"cafe_NFC", "cam2", "metadata.csv">>,
      <<"cafe_NFD", "cam1", "metadata.csv">>,
      <<"F2", "gps_log.csv">> }

Prefixes(p) == {SubSeq(p, 1, k) : k \in 0..(Len(p) - 1)}

DirsOf(fs) == {<<>>} \cup UNION {Prefixes(f) : f \in fs}

Children(d) ==
    {p[Len(d) + 1] : p \in {q \in dirs \cup files :
                               Len(q) = Len(d) + 1 /\ SubSeq(q, 1, Len(d)) = d}}

RECURSIVE Perms(_)
\* every order in which readdir can list the set of names S
Perms(S) ==
    IF S = {} THEN {<<>>}
    ELSE UNION {{<<x>> \o p : p \in Perms(S \ {x})} : x \in S}

RECURSIVE ListingsOver(_)
\* every assignment of a listing order to each directory of D
ListingsOver(D) ==
    IF D = {} THEN {<<>>}
    ELSE LET d == CHOOSE x \in D : TRUE
         IN {(d :> p) @@ g : p \in Perms(Children(d)),
                             g \in ListingsOver(D \ {d})}

RECURSIVE SubsetsUpTo(_, _)
\* the subsets of S with at most k elements
SubsetsUpTo(S, k) ==
    IF k = 0 THEN {{}}
    ELSE LET T == SubsetsUpTo(S, k - 1)
         IN T \cup {t \cup {x} : t \in T, x \in S}

\* the calls of one scan that fail: readdir of a directory, stat of an item
FaultSets ==
    SubsetsUpTo(({"readdir"} \X dirs) \cup ({"stat"} \X (dirs \cup files)),
                MaxFaults)

NoEnv == [listing |-> <<>>, readdirFail |-> {}, statFail |-> {},
          readFault |-> <<>>]
NoInput == [records |-> <<>>]
NoOutput == [op |-> "none"]

InitScan ==
    /\ files \in {fs \in SUBSET CandidateFiles : Cardinality(fs) <= MaxFiles}
    /\ dirs = DirsOf(files)
    /\ content = <<>>
    /\ env = NoEnv
    /\ input = NoInput
    /\ output = NoOutput
    /\ alive = TRUE

\* a caller awaits scanForMetadataFiles(DATA_PATH)
CallScan ==
    /\ alive
    /\ output.op = "none"
    /\ \E l \in ListingsOver(dirs), fl \in FaultSets :
          LET e == [listing |-> l,
                    readdirFail |-> {c[2] : c \in {x \in fl : x[1] = "readdir"}},
                    statFail |-> {c[2] : c \in {x \in fl : x[1] = "stat"}},
                    readFault |-> <<>>]
              r == ScanForMetadataFiles(e, BasePath)
          IN /\ env' = e
             /\ output' = [op |-> "scan", state |-> r.state, value |-> r.value]
    /\ UNCHANGED <<dirs, files, content, input, alive>>

\* the caller has consumed the result; the next request starts from scratch
Finish ==
    /\ alive
    /\ output.op # "none"
    /\ env' = NoEnv
    /\ input' = NoInput
    /\ output' = NoOutput
    /\ UNCHANGED <<dirs, files, content, alive>>

NextScan == CallScan \/ Finish

SpecScan == InitScan /\ [][NextScan]_vars

(***************************************************************************)
(* Properties of scanForMetadataFiles (checked under SpecScan)             *)
(***************************************************************************)
ScanDone == output.op = "scan" /\ output.state = "fulfilled"

Catalog == IF ScanDone THEN output.value ELSE <<>>

\* the directory segments of an entry: its relative path without the file name
SegmentsOf(entry) == SubSeq(entry.relativePath, 1, Len(entry.relativePath) - 1)

TripleOf(entry) == <<entry.session, entry.camera, entry.anomalyType>>

\* C1: the triple of every catalog entry comes from the directory segments of
\* its relative path: (seg0, seg1, seg2) with 3 or more segments, deeper
\* segments ignored; (seg0, seg1, "general") with 2; (seg0, "unknown",
\* "general") with 1; ("unknown", "unknown", "general") in the root.
C1_TripleFromSegments ==
    \A k \in 1..Len(Catalog) :
        LET segs == SegmentsOf(Catalog[k])
            triple == TripleOf(Catalog[k])
        IN /\ Len(segs) >= 3 => triple = <<segs[1], segs[2], segs[3]>>
           /\ Len(segs) = 2 => triple = <<segs[1], segs[2], "general">>
           /\ Len(segs) = 1 => triple = <<segs[1], "unknown", "general">>
           /\ Len(segs) = 0 => triple = <<"unknown", "unknown", "general">>

\* a catalog that holds an entry deeper than 3 segments, and one in the root
C1_Witness ==
    /\ \E k \in 1..Len(Catalog) :
          /\ Len(SegmentsOf(Catalog[k])) > 3
          /\ Catalog[k].anomalyType = "crack"
    /\ \E k \in 1..Len(Catalog) :
          /\ Len(SegmentsOf(Catalog[k])) = 0
          /\ Catalog[k].session = "unknown"

\* (x.session, x.camera, x.anomalyType) <= (y.session, y.camera, y.anomalyType)
\* in the lexicographic order of the locale-aware string comparison
TripleLeq(x, y) ==
    LET s == LocaleCompare(x.session, y.session)
        c == LocaleCompare(x.camera, y.camera)
        a == LocaleCompare(x.anomalyType, y.anomalyType)
    IN s < 0 \/ (s = 0 /\ (c < 0 \/ (c = 0 /\ a <= 0)))

\* C2: the catalog is sorted: an entry that precedes another has a triple
\* less than or equal to the other's, whatever order readdir listed the items in.
C2_CatalogSorted ==
    \A i \in 1..Len(Catalog), j \in 1..Len(Catalog) :
        i < j => TripleLeq(Catalog[i], Catalog[j])

MetadataFilesOnDisk == {f \in files : f[Len(f)] = "metadata.csv"}

NoScanFault == env.readdirFail = {} /\ env.statFail = {}

\* C3: when every readdir and stat succeeds, the catalog holds exactly one
\* entry for each file named metadata.csv under the root, and nothing else.
C3_ExactlyTheMetadataFiles ==
    (ScanDone /\ NoScanFault) =>
        /\ {Catalog[k].path : k \in 1..Len(Catalog)} = MetadataFilesOnDisk
        /\ \A i \in 1..Len(Catalog), j \in 1..Len(Catalog) :
              Catalog[i].path = Catalog[j].path => i = j

\* a fault-free scan of a tree with two metadata tables and another CSV file
C3_Witness ==
    /\ ScanDone /\ NoScanFault
    /\ Len(Catalog) = 2
    /\ <<"F2", "gps_log.csv">> \in files

\* C4: scanForMetadataFiles never rejects, whatever readdir or stat call fails.
C4_ScanNeverRejects ==
    output.op = "scan" => output.state = "fulfilled"

\* a scan in which a stat failed half way and that returned a partial catalog
C4_Witness ==
    /\ ScanDone
    /\ env.statFail # {}
    /\ Len(Catalog) = 1
    /\ Cardinality(MetadataFilesOnDisk) = 2

(***************************************************************************)
(* Values of the CSV cells.  csv-parser yields strings only; a column the  *)
(* row does not have reads as undefined.                                   *)
(***************************************************************************)
Num(n) == [t |-> "num", v |-> n]
NaN == [t |-> "NaN"]
NoNumber == [t |-> "null"]

\* the texts of the model that parseFloat turns into a number
NumberText ==
    ("10.0" :> 10) @@ ("95" :> 95) @@ ("-20" :> -20) @@ ("30" :> 30)
        @@ ("181" :> 181) @@ ("45deg" :> 45)

\* parseFloat: the number a text starts with, NaN for any other text
ParseFloat(s) ==
    IF s \in DOMAIN NumberText THEN Num(NumberText[s]) ELSE NaN

\* record[field]
Get(record, field) ==
    IF field \in DOMAIN record THEN record[field] ELSE Undefined

\* truthiness of a cell or timestamp: undefined, null and the empty string are falsy
Truthy(v) == v # Undefined /\ v # Null /\ v # ""

(***************************************************************************)
(* extractGPSData                                                          *)
(***************************************************************************)
\* a variant of the candidate lists in which the short name lat comes first
gpsFieldsLatFirst ==
    [latitude |-> <<"lat", "latitude", "gps_lat", "gps_latitude", "y_coord", "y">>,
     longitude |-> <<"longitude", "lng", "lon", "gps_lng", "gps_longitude",
                     "x_coord", "x">>,
     timestamp |-> <<"timestamp", "time", "datetime", "created_at", "date",
                     "detection_time">>]

gpsFields ==
    [latitude |-> <<"latitude", "lat", "gps_lat", "gps_latitude", "y_coord", "y">>,
     longitude |-> <<"longitude", "lng", "lon", "gps_lng", "gps_longitude",
                     "x_coord", "x">>,
     timestamp |-> <<"timestamp", "time", "datetime", "created_at", "date",
                     "detection_time">>]

RECURSIVE FindNumber(_, _, _)
\* the loops over gpsFields.latitude and gpsFields.longitude, from field i on
FindNumber(record, fields, i) ==
    IF i > Len(fields) THEN NoNumber
    ELSE LET v == Get(record, fields[i])
         IN IF Truthy(v) /\ v # "" /\ ParseFloat(v) # NaN
            THEN ParseFloat(v)
            ELSE FindNumber(record, fields, i + 1)

RECURSIVE FindTimestamp(_, _, _)
\* the loop over gpsFields.timestamp, from field i on
FindTimestamp(record, fields, i) ==
    IF i > Len(fields) THEN Null
    ELSE LET v == Get(record, fields[i])
         IN IF Truthy(v) /\ v # "" THEN v
            ELSE FindTimestamp(record, fields, i + 1)

\* a variant of the validation that checks the latitude only
LatitudeInRange(lat, lng) == lat >= -90 /\ lat <= 90

\* lat >= -90 && lat <= 90 && lng >= -180 && lng <= 180
InRange(lat, lng) == lat >= -90 /\ lat <= 90 /\ lng >= -180 /\ lng <= 180

\* a variant that numbers the points by their position in the output
OutputPosition(index, gpsData) == Len(gpsData)

\* recordIndex: index, the position of the row in metadataRecords
RecordIndex(index, gpsData) == index

RECURSIVE ExtractFrom(_, _, _, _, _, _)
\* metadataRecords.forEach from the row with 0-based position index on
ExtractFrom(metadataRecords, index, session, camera, anomalyType, gpsData) ==
    IF index >= Len(metadataRecords) THEN gpsData
    ELSE LET record == metadataRecords[index + 1]
             lat == FindNumber(record, gpsFields.latitude, 1)
             lng == FindNumber(record, gpsFields.longitude, 1)
             timestamp == FindTimestamp(record, gpsFields.timestamp, 1)
             point == [latitude |-> lat.v, longitude |-> lng.v,
                       timestamp |-> timestamp, session |-> session,
                       camera |-> camera, anomalyType |-> anomalyType,
                       recordIndex |-> RecordIndex(index, gpsData),
                       originalRecord |-> record]
         IN ExtractFrom(metadataRecords, index + 1, session, camera, anomalyType,
                IF lat # NoNumber /\ lng # NoNumber /\ InRange(lat.v, lng.v)
                THEN Append(gpsData, point)
                ELSE gpsData)

ExtractGPSData(metadataRecords, session, camera, anomalyType) ==
    ExtractFrom(metadataRecords, 0, session, camera, anomalyType, <<>>)

(***************************************************************************)
(* Rows handed to extractGPSData                                           *)
(***************************************************************************)
Absent == "(absent)"

\* the row with the columns of cells that are present
MakeRow(cells) ==
    [c \in {k \in DOMAIN cells : cells[k] # Absent} |-> cells[c]]

RowUniverse ==
    {MakeRow(cells) :
        cells \in [latitude : {Absent, "abc", "10.0", "95"},
                   lat : {Absent, "-20"},
                   lng : {"30", "181"},
                   timestamp : {"", "2024-01-02"},
                   time : {Absent, "2024-01-01"}]}

\* the sequences over S of length at most n
SeqUpTo(S, n) == UNION {[1..k -> S] : k \in 0..n}

InitGPS ==
    /\ files = {}
    /\ dirs = {<<>>}
    /\ content = <<>>
    /\ env = NoEnv
    /\ input \in [records : SeqUpTo(RowUniverse, MaxRows), session : {"A"},
                  camera : {"cam1"}, anomalyType : {"crack"}]
    /\ output = NoOutput
    /\ alive = TRUE

\* a caller evaluates extractGPSData(records, session, camera, anomalyType)
CallExtract ==
    /\ alive
    /\ output.op = "none"
    /\ output' = [op |-> "extract",
                  value |-> ExtractGPSData(input.records, input.session,
                                           input.camera, input.anomalyType)]
    /\ UNCHANGED <<dirs, files, content, env, input, alive>>

\* the caller has consumed the points
Return ==
    /\ alive
    /\ output.op = "extract"
    /\ output' = NoOutput
    /\ UNCHANGED <<dirs, files, content, env, input, alive>>

NextGPS == CallExtract \/ Return

SpecGPS == InitGPS /\ [][NextGPS]_vars

(***************************************************************************)
(* Properties of extractGPSData (checked under SpecGPS)                    *)
(***************************************************************************)
Extracted == IF output.op = "extract" THEN output.value ELSE <<>>

\* C5: extractGPSData emits no point with a latitude outside [-90, 90] or a
\* longitude outside [-180, 180].
C5_PointsInRange ==
    \A k \in 1..Len(Extracted) :
        /\ Extracted[k].latitude >= -90 /\ Extracted[k].latitude <= 90
        /\ Extracted[k].longitude >= -180 /\ Extracted[k].longitude <= 180

\* two rows with a numeric latitude and longitude, one of them out of range
C5_Witness ==
    /\ Len(input.records) = 2
    /\ Len(Extracted) = 1
    /\ \A i \in 1..2 : Get(input.records[i], "latitude") = "10.0"
    /\ \E i \in 1..2 : Get(input.records[i], "lng") = "181"

\* the column is present in the row and its value is not empty
Populated(record, column) == Truthy(Get(record, column))

BothLatitudesPopulated(record) ==
    Populated(record, "latitude") /\ Populated(record, "lat")

Usable(record, column) ==
    Populated(record, column) /\ ParseFloat(Get(record, column)) # NaN

\* the number of the first usable candidate, if there is one
Resolved(record, fields) ==
    LET usable == {k \in 1..Len(fields) : Usable(record, fields[k])}
    IN IF usable = {} THEN NoNumber
       ELSE ParseFloat(record[fields[CHOOSE k \in usable :
                                        \A j \in usable : k <= j]])

\* the first non-empty timestamp candidate, or null
FirstTimestamp(record) ==
    LET fields == gpsFields.timestamp
        given == {k \in 1..Len(fields) : Populated(record, fields[k])}
    IN IF given = {} THEN Null
       ELSE record[fields[CHOOSE k \in given : \A j \in given : k <= j]]

ValidRow(record) ==
    LET lat == Resolved(record, gpsFields.latitude)
        lng == Resolved(record, gpsFields.longitude)
    IN /\ lat.t = "num" /\ lng.t = "num"
       /\ lat.v \in -90..90 /\ lng.v \in -180..180

\* the 0-based positions of the input rows that yield a point
ValidPositions ==
    {i \in 0..(Len(input.records) - 1) : ValidRow(input.records[i + 1])}

\* C7: the output is the in-order subsequence of the rows whose latitude and
\* longitude resolve to numbers in range: one point for each such row, none
\* for another, recordIndex the row's 0-based position (strictly increasing),
\* timestamp the first non-empty timestamp candidate or null.
C7_InOrderSubsequence ==
    output.op = "extract" =>
        /\ Len(Extracted) = Cardinality(ValidPositions)
        /\ {Extracted[k].recordIndex : k \in 1..Len(Extracted)} = ValidPositions
        /\ \A k \in 1..Len(Extracted), l \in 1..Len(Extracted) :
              k < l => Extracted[k].recordIndex < Extracted[l].recordIndex
        /\ \A k \in 1..Len(Extracted) :
              LET p == Extracted[k]
                  record == input.records[p.recordIndex + 1]
              IN /\ p.originalRecord = record
                 /\ Num(p.latitude) = Resolved(record, gpsFields.latitude)
                 /\ Num(p.longitude) = Resolved(record, gpsFields.longitude)
                 /\ p.timestamp = FirstTimestamp(record)

\* the first of two rows is skipped; the point of the second keeps position 1
\* and takes its timestamp from the time column, timestamp being empty
C7_Witness ==
    /\ Len(input.records) = 2
    /\ Len(Extracted) = 1
    /\ Extracted[1].recordIndex = 1
    /\ Get(input.records[2], "timestamp") = ""
    /\ Extracted[1].timestamp = "2024-01-01"

(***************************************************************************)
(* readCSV                                                                 *)
(***************************************************************************)
\* what the filesystem does to the read stream of filePath during this call
ReadFault(e, filePath) ==
    IF filePath \in DOMAIN e.readFault THEN e.readFault[filePath] ELSE "none"

\* The promise readCSV(filePath) settles to.  The 'error' listener is on the
\* parser that the file stream is piped into: an error of the file stream
\* itself (EISDIR, EACCES, the file removed after existsSync) has no listener,
\* so it is thrown as an uncaught exception and the promise stays pending.
ReadCSV(e, filePath) ==
    IF filePath \notin (files \cup dirs)
    THEN [state |-> "rejected", value |-> <<>>]
    ELSE IF filePath \in dirs \/ ReadFault(e, filePath) = "stream"
    THEN [state |-> "unhandled", value |-> <<>>]
    ELSE IF ReadFault(e, filePath) = "parse"
    THEN [state |-> "rejected", value |-> <<>>]
    ELSE [state |-> "fulfilled", value |-> content[filePath]]

(***************************************************************************)
(* GET /api/gps-data/combined                                              *)
(***************************************************************************)
GpsLogPath == <<"F2", "gps_log.csv">>

\* a || b on cells
OrCell(a, b) == IF Truthy(a) THEN a ELSE b

\* the texts of the model that new Date() understands, as days
DateText == ("2024-01-01" :> 1) @@ ("2024-01-02" :> 2) @@ ("2024-01-03" :> 3)

\* new Date(a.timestamp) - new Date(b.timestamp); NaN, the difference with an
\* invalid date, counts as 0 in Array.prototype.sort
DateDifference(a, b) ==
    IF a \in DOMAIN DateText /\ b \in DOMAIN DateText
    THEN DateText[a] - DateText[b]
    ELSE 0

\* a comparefn that puts the points without timestamp first
CompareTimestampsUntimedFirst(a, b) ==
    IF Truthy(a.timestamp) /\ Truthy(b.timestamp)
    THEN DateDifference(a.timestamp, b.timestamp)
    ELSE IF Truthy(b.timestamp) THEN -1
    ELSE IF Truthy(a.timestamp) THEN 1 ELSE 0

\* the comparefn of allGPSData.sort
CompareTimestamps(a, b) ==
    IF Truthy(a.timestamp) /\ Truthy(b.timestamp)
    THEN DateDifference(a.timestamp, b.timestamp)
    ELSE 0

RECURSIVE StandardizeFrom(_, _, _)
\* gpsLogData.map(...).filter(point => !isNaN(latitude) && !isNaN(longitude)),
\* from the row with 0-based position index on
StandardizeFrom(gpsLogData, index, points) ==
    IF index >= Len(gpsLogData) THEN points
    ELSE LET record == gpsLogData[index + 1]
             latitude == ParseFloat(OrCell(Get(record, "latitude"),
                                           Get(record, "lat")))
             longitude == ParseFloat(OrCell(Get(record, "longitude"),
                                      OrCell(Get(record, "lng"),
                                             Get(record, "lon"))))
             point == [latitude |-> latitude.v, longitude |-> longitude.v,
                       timestamp |-> OrCell(Get(record, "timestamp"),
                                       OrCell(Get(record, "time"),
                                              Get(record, "datetime"))),
                       session |-> "F2", camera |-> "gps_logger",
                       anomalyType |-> "tracking", recordIndex |-> index,
                       source |-> "gps_log.csv", originalRecord |-> record]
         IN StandardizeFrom(gpsLogData, index + 1,
                IF latitude # NaN /\ longitude # NaN
                THEN Append(points, point)
                ELSE points)

StandardizeGpsLog(gpsLogData) == StandardizeFrom(gpsLogData, 0, <<>>)

\* gpsData.map(point => ({...point, source: 'metadata.csv'}))
EnhanceGPSData(gpsData) ==
    [k \in 1..Len(gpsData) |->
        [latitude |-> gpsData[k].latitude, longitude |-> gpsData[k].longitude,
         timestamp |-> gpsData[k].timestamp, session |-> gpsData[k].session,
         camera |-> gpsData[k].camera, anomalyType |-> gpsData[k].anomalyType,
         recordIndex |-> gpsData[k].recordIndex, source |-> "metadata.csv",
         originalRecord |-> gpsData[k].originalRecord]]

RECURSIVE CollectMetadataGPS(_, _, _, _)
\* for (const file of metadataFiles) try { ... } catch { log }, from file i on
CollectMetadataGPS(e, metadataFiles, i, acc) ==
    IF i > Len(metadataFiles) THEN acc
    ELSE LET file == metadataFiles[i]
             metadataData == ReadCSV(e, file.path)
             gpsData == ExtractGPSData(metadataData.value, file.session,
                                       file.camera, file.anomalyType)
         IN IF metadataData.state = "unhandled"
            THEN [acc EXCEPT !.crashed = TRUE]
            ELSE IF metadataData.state = "rejected" \/ Len(gpsData) = 0
            THEN CollectMetadataGPS(e, metadataFiles, i + 1, acc)
            ELSE CollectMetadataGPS(e, metadataFiles, i + 1,
                     [data |-> acc.data \o EnhanceGPSData(gpsData),
                      count |-> acc.count + Len(gpsData),
                      crashed |-> FALSE])

\* the handler: what it responds, or that the process died before it could
CombinedGPSData(e) ==
    LET gpsLogData == ReadCSV(e, GpsLogPath)
        standardizedGpsLog == StandardizeGpsLog(gpsLogData.value)
        logRead == gpsLogData.state = "fulfilled"
        logData == IF logRead THEN standardizedGpsLog ELSE <<>>
        logSources == IF logRead
                      THEN << [source |-> "F2/gps_log.csv",
                               type |-> "GPS tracking log",
                               count |-> Len(standardizedGpsLog)] >>
                      ELSE <<>>
        metadataFiles == ScanForMetadataFiles(e, BasePath)
        collected == CollectMetadataGPS(e, metadataFiles.value, 1,
                         [data |-> logData, count |-> 0, crashed |-> FALSE])
        sources == IF metadataFiles.state = "fulfilled"
                   THEN Append(logSources,
                               [source |-> "metadata.csv files",
                                type |-> "GPS from anomaly detection metadata",
                                count |-> collected.count])
                   ELSE logSources
        allGPSData == ArraySort(collected.data,
                          [p \in RangeOf(collected.data) \X RangeOf(collected.data)
                              |-> CompareTimestamps(p[1], p[2])])
    IN IF gpsLogData.state = "unhandled" \/ collected.crashed
       THEN [crashed |-> TRUE]
       ELSE [crashed |-> FALSE, status |-> 200,
             body |-> [success |-> TRUE, count |-> Len(allGPSData),
                       data |-> allGPSData, sources |-> sources]]

(***************************************************************************)
(* The tree, the tables and the filesystem behaviour of the combined view  *)
(***************************************************************************)
TablePaths ==
    { <<"A", "cam1", "crack", "metadata.csv">>, <<"A", "cam2", "metadata.csv">> }

LogRowUniverse ==
    {MakeRow(cells) :
        cells \in [latitude : {"10.0", "95", "abc"}, lon : {"30"},
                   time : {Absent, "2024-01-03"}]}

TableRowUniverse ==
    {MakeRow(cells) :
        cells \in [latitude : {"10.0", "95"}, lng : {"30"},
                   timestamp : {"2024-01-02"}]}

\* the rows a CSV file of the tree can hold
ContentsOf(f) ==
    IF f = GpsLogPath THEN SeqUpTo(LogRowUniverse, MaxLogRows)
    ELSE SeqUpTo(TableRowUniverse, MaxTableRows)

RECURSIVE ContentsOver(_)
\* every assignment of rows to each CSV file of F
ContentsOver(F) ==
    IF F = {} THEN {<<>>}
    ELSE LET f == CHOOSE x \in F : TRUE
         IN {(f :> rows) @@ g : rows \in ContentsOf(f),
                                g \in ContentsOver(F \ {f})}

RECURSIVE ReadFaultsOver(_)
\* every assignment of a fate to the read stream of each CSV file of F
ReadFaultsOver(F) ==
    IF F = {} THEN {<<>>}
    ELSE LET f == CHOOSE x \in F : TRUE
         IN {(f :> fault) @@ g : fault \in {"none", "stream", "parse"},
                                 g \in ReadFaultsOver(F \ {f})}

\* the scans of the combined view: undisturbed, or with one failing call
ViewScanFaults ==
    { {}, {<<"readdir", <<"A", "cam1">> >>}, {<<"stat", <<"A", "cam2">> >>} }

InitCombined ==
    /\ files \in SUBSET ({GpsLogPath} \cup TablePaths)
    /\ dirs = DirsOf(files)
    /\ content \in ContentsOver(files)
    /\ env = NoEnv
    /\ input = NoInput
    /\ output = NoOutput
    /\ alive = TRUE

\* a client requests GET /api/gps-data/combined
GetCombined ==
    /\ alive
    /\ output.op = "none"
    /\ \E l \in ListingsOver(dirs), fl \in ViewScanFaults,
          rf \in ReadFaultsOver(files) :
          LET e == [listing |-> l,
                    readdirFail |-> {c[2] : c \in {x \in fl : x[1] = "readdir"}},
                    statFail |-> {c[2] : c \in {x \in fl : x[1] = "stat"}},
                    readFault |-> rf]
              r == CombinedGPSData(e)
          IN /\ env' = e
             /\ alive' = ~r.crashed
             /\ output' = IF r.crashed
                          THEN [op |-> "combined", responded |-> FALSE]
                          ELSE [op |-> "combined", responded |-> TRUE,
                                status |-> r.status, body |-> r.body]
    /\ UNCHANGED <<dirs, files, content, input>>

NextCombined == GetCombined \/ Finish

SpecCombined == InitCombined /\ [][NextCombined]_vars

(***************************************************************************)
(* Properties of the combined view (checked under SpecCombined)            *)
(***************************************************************************)
Responded == output.op = "combined" /\ output.responded

CombinedData == IF Responded THEN output.body.data ELSE <<>>

CombinedSources == IF Responded THEN output.body.sources ELSE <<>>

\* no call of the request failed: the scan was undisturbed, every read worked
CleanRequest ==
    /\ NoScanFault
    /\ \A f \in files : ReadFault(env, f) = "none"

\* the 1-based positions of the rows of gps_log.csv that hold a valid point:
\* latitude and longitude are numbers, in [-90, 90] and [-180, 180]
ValidLogPositions ==
    IF GpsLogPath \notin files THEN {}
    ELSE {i \in 1..Len(content[GpsLogPath]) :
            LET record == content[GpsLogPath][i]
                lat == ParseFloat(OrCell(Get(record, "latitude"),
                                         Get(record, "lat")))
                lng == ParseFloat(OrCell(Get(record, "longitude"),
                                    OrCell(Get(record, "lng"),
                                           Get(record, "lon"))))
            IN /\ lat.t = "num" /\ lng.t = "num"
               /\ lat.v \in -90..90 /\ lng.v \in -180..180}

\* the rows of the metadata tables that hold a valid point
ValidTablePositions ==
    {fi \in UNION {{<<f, i>> : i \in 1..Len(content[f])} :
                      f \in files \cap TablePaths} :
        ValidRow(content[fi[1]][fi[2]])}

\* C8: the combined view returns as many points as gps_log.csv and the
\* metadata tables hold valid (in-range) points, each tagged with its source.
C8_CombinedCountsValidPoints ==
    (Responded /\ CleanRequest) =>
        /\ Len(CombinedData) =
              Cardinality(ValidLogPositions) + Cardinality(ValidTablePositions)
        /\ \A k \in 1..Len(CombinedData) :
              CombinedData[k].source \in {"gps_log.csv", "metadata.csv"}

\* C9: every GPS point of a response, those built from gps_log.csv included,
\* has its latitude in [-90, 90] and its longitude in [-180, 180].
C9_ResponsePointsInRange ==
    \A k \in 1..Len(CombinedData) :
        /\ CombinedData[k].latitude >= -90 /\ CombinedData[k].latitude <= 90
        /\ CombinedData[k].longitude >= -180 /\ CombinedData[k].longitude <= 180

RECURSIVE SumOfCounts(_)
SumOfCounts(sources) ==
    IF sources = <<>> THEN 0
    ELSE sources[1].count + SumOfCounts(Tail(sources))

Readable(f) == f \in files /\ ReadFault(env, f) = "none"

\* the points of the sources that could be read
ReadablePoints ==
    (IF Readable(GpsLogPath)
     THEN RangeOf(StandardizeGpsLog(content[GpsLogPath])) ELSE {})
    \cup UNION {
        LET t == DeriveTriple(SplitPath(SubSeq(f, 1, Len(f) - 1)))
        IN RangeOf(EnhanceGPSData(
               ExtractGPSData(content[f], t.session, t.camera, t.anomalyType)))
        : f \in {g \in TablePaths : Readable(g)} }

\* reading gps_log.csv, or reading one of the metadata tables, failed
SourceReadFailed ==
    \/ ~Readable(GpsLogPath)
    \/ \E f \in files \cap TablePaths : ~Readable(f)

\* C10: when reading gps_log.csv or one metadata table fails, the response is
\* still a success, its data are the points of the sources that could be
\* read, and the counts in sources sum to the number of points returned.
C10_SourceFailureTolerated ==
    (output.op = "combined" /\ NoScanFault /\ SourceReadFailed) =>
        /\ Responded
        /\ output.body.success
        /\ RangeOf(CombinedData) = ReadablePoints
        /\ Len(CombinedData) = Cardinality(ReadablePoints)
        /\ SumOfCounts(CombinedSources) = Len(CombinedData)

(***************************************************************************)
(* GET /api/gps/heatmap: the bucketing of the collected points             *)
(***************************************************************************)
\* In this part a coordinate is a whole number of 10^-Digits degrees, so that
\* toFixed has digits to round away.  Every coordinate of PointUniverse is
\* either exactly representable in binary or not halfway between two
\* neighbours, so the decimal arithmetic below is the arithmetic of the
\* doubles.
DefaultPrecision == 4

Digits == DefaultPrecision + 1

RECURSIVE Pow10(_)
Pow10(k) == IF k = 0 THEN 1 ELSE 10 * Pow10(k - 1)

\* parseInt of the precision query parameter
IntegerText ==
    [t \in {"0", "1", "2", "2.7", "101", "-1"} |->
        CASE t = "0" -> 0
          [] t = "1" -> 1
          [] t = "2" -> 2
          [] t = "2.7" -> 2
          [] t = "101" -> 101
          [] t = "-1" -> -1]

ParseInt(text) ==
    IF text \in DOMAIN IntegerText THEN Num(IntegerText[text]) ELSE NaN

\* const { precision = 4 } = req.query; parseInt(precision)
PrecisionLevel(query) ==
    IF query.precision = Undefined THEN Num(DefaultPrecision)
    ELSE ParseInt(query.precision)

\* Number.prototype.toFixed: ToIntegerOrInfinity(fractionDigits) (NaN is 0),
\* a RangeError outside 0..100, then the sign is split off and the magnitude
\* is rounded to the nearest n / 10^f, the larger n on a tie.  The result is
\* the decimal text, kept as its sign, its digits n and their scale f.
ToFixed(x, fractionDigits) ==
    LET f == IF fractionDigits = NaN THEN 0 ELSE fractionDigits.v
        magnitude == IF x < 0 THEN 0 - x ELSE x
        n == IF f >= Digits THEN magnitude * Pow10(f - Digits)
             ELSE (2 * magnitude + Pow10(Digits - f)) \div (2 * Pow10(Digits - f))
    IN IF f < 0 \/ f > 100 THEN [threw |-> TRUE]
       ELSE [threw |-> FALSE, negative |-> x < 0, n |-> n, f |-> f]

\* parseFloat of a toFixed text: a double with its sign bit, "-0.00" is -0
ParseFixed(text) ==
    [negative |-> text.negative,
     magnitude |-> IF text.f >= Digits THEN text.n \div Pow10(text.f - Digits)
                   ELSE text.n * Pow10(Digits - text.f)]

\* `${number}` of a template literal: -0 prints as "0", every other number
\* as its shortest round-trip text, which differs for different numbers
NumberToString(number) ==
    IF number.magnitude = 0 THEN 0
    ELSE IF number.negative THEN 0 - number.magnitude ELSE number.magnitude

\* a variant of HeatmapKey: the key leaves the longitude out
HeatmapKeyLatitudeOnly(lat, lng) == <<NumberToString(lat)>>

\* const key = `${lat},${lng}`: no number text holds a comma, so the key is
\* the pair of the two texts
HeatmapKey(lat, lng) == <<NumberToString(lat), NumberToString(lng)>>

\* Set.prototype.add on a Set kept in insertion order
SetAdd(set, value) ==
    IF \E k \in 1..Len(set) : set[k] = value THEN set ELSE Append(set, value)

\* the body of allGPSData.forEach: heatmapData is the sequence of its
\* properties in insertion order (no key is an integer index)
AddToHeatmap(heatmapData, point, precisionLevel) ==
    LET lat == ParseFixed(ToFixed(point.latitude, precisionLevel))
        lng == ParseFixed(ToFixed(point.longitude, precisionLevel))
        key == HeatmapKey(lat, lng)
        known == {k \in 1..Len(heatmapData) : heatmapData[k].key = key}
        created == IF known # {} THEN heatmapData
                   ELSE Append(heatmapData,
                               [key |-> key, latitude |-> lat, longitude |-> lng,
                                count |-> 0, sessions |-> <<>>,
                                cameras |-> <<>>, anomalyTypes |-> <<>>])
        at == CHOOSE k \in 1..Len(created) : created[k].key = key
        bucket == created[at]
    IN [created EXCEPT ![at] =
           [bucket EXCEPT !.count = bucket.count + 1,
                          !.sessions = SetAdd(bucket.sessions, point.session),
                          !.cameras = SetAdd(bucket.cameras, point.camera),
                          !.anomalyTypes =
                              SetAdd(bucket.anomalyTypes, point.anomalyType)]]

RECURSIVE HeatmapData(_, _, _, _)
HeatmapData(allGPSData, precisionLevel, i, heatmapData) ==
    IF i > Len(allGPSData) THEN heatmapData
    ELSE HeatmapData(allGPSData, precisionLevel, i + 1,
                     AddToHeatmap(heatmapData, allGPSData[i], precisionLevel))

\* Object.values(heatmapData).map(...)
HeatmapPoints(heatmapData) ==
    [k \in 1..Len(heatmapData) |->
        [latitude |-> heatmapData[k].latitude,
         longitude |-> heatmapData[k].longitude,
         intensity |-> heatmapData[k].count,
         sessions |-> heatmapData[k].sessions,
         cameras |-> heatmapData[k].cameras,
         anomalyTypes |-> heatmapData[k].anomalyTypes]]

\* lines 1029-1081 of the handler on the collected points: toFixed throws on
\* the first point when the precision is out of range, and the handler's
\* catch answers 500; no point, no toFixed call
HeatmapResponse(allGPSData, query) ==
    LET precisionLevel == PrecisionLevel(query)
        throws == /\ Len(allGPSData) > 0
                  /\ ToFixed(allGPSData[1].latitude, precisionLevel).threw
    IN IF throws THEN [status |-> 500, body |-> [success |-> FALSE]]
       ELSE LET heatmapPoints ==
                    HeatmapPoints(HeatmapData(allGPSData, precisionLevel, 1, <<>>))
            IN [status |-> 200,
                body |-> [success |-> TRUE,
                          count |-> Len(heatmapPoints),
                          totalPoints |-> Len(allGPSData),
                          data |-> heatmapPoints,
                          filters |-> [precision |-> precisionLevel]]]

MaxPoints == 2

\* points as extractGPSData emits them, the fields the bucketing reads
PointUniverse ==
    [latitude : {-1, 1, 1012500, 1049999, 1050000},
     longitude : {3000004, 3000006},
     session : {"A", "B"}, camera : {"cam1"}, anomalyType : {"crack"}]
    \cup
    [latitude : {1012500}, longitude : {3000004},
     session : {"A"}, camera : {"cam2"}, anomalyType : {"pothole"}]

PrecisionTexts == {Undefined, "0", "2", "2.7", "abc", "101", "-1"}

InitHeatmap ==
    /\ files = {}
    /\ dirs = {<<>>}
    /\ content = <<>>
    /\ env = NoEnv
    /\ input \in [allGPSData : SeqUpTo(PointUniverse, MaxPoints),
                  query : [precision : PrecisionTexts]]
    /\ output = NoOutput
    /\ alive = TRUE

\* GET /api/gps/heatmap, from the collected points to the response
GetHeatmap ==
    /\ alive
    /\ output.op = "none"
    /\ output' = [op |-> "heatmap",
                  response |-> HeatmapResponse(input.allGPSData, input.query)]
    /\ UNCHANGED <<dirs, files, content, env, input, alive>>

\* the response has been sent
SendHeatmap ==
    /\ alive
    /\ output.op = "heatmap"
    /\ output' = NoOutput
    /\ UNCHANGED <<dirs, files, content, env, input, alive>>

NextHeatmap == GetHeatmap \/ SendHeatmap

SpecHeatmap == InitHeatmap /\ [][NextHeatmap]_vars

(***************************************************************************)
(* Properties of the heatmap bucketing (checked under SpecHeatmap)         *)
(***************************************************************************)
HeatmapSent == output.op = "heatmap" /\ output.response.status = 200

Heatmap == IF HeatmapSent THEN output.response.body.data ELSE <<>>

\* x rounded to p decimal digits: the nearest multiple of 10^-p, the one
\* farther from zero when x is halfway
RoundedTo(x, p) ==
    IF p >= Digits THEN x
    ELSE LET unit == Pow10(Digits - p)
             below == (x \div unit) * unit
             above == below + unit
         IN CASE x - below < above - x -> below
              [] x - below > above - x -> above
              [] OTHER -> IF x < 0 THEN below ELSE above

\* the number a bucket carries in a coordinate field
Degrees(number) ==
    IF number.negative THEN 0 - number.magnitude ELSE number.magnitude

RECURSIVE SumOfIntensities(_, _)
SumOfIntensities(buckets, k) ==
    IF k > Len(buckets) THEN 0
    ELSE buckets[k].intensity + SumOfIntensities(buckets, k + 1)

Distinct(seq) == Cardinality(RangeOf(seq)) = Len(seq)

\* C11: the buckets partition the points by rounded coordinates: two points
\* are in the same bucket exactly when their latitude and longitude rounded
\* to precision digits are equal, a bucket's intensity is the number of its
\* points, the intensities sum to totalPoints, and a bucket's sessions,
\* cameras and anomalyTypes are the distinct values of its points.
C11_BucketsPartitionPoints ==
    (HeatmapSent /\ PrecisionLevel(input.query) # NaN) =>
        LET points == input.allGPSData
            p == PrecisionLevel(input.query).v
            body == output.response.body
            Rounded(i) == <<RoundedTo(points[i].latitude, p),
                            RoundedTo(points[i].longitude, p)>>
            Place(b) == <<Degrees(Heatmap[b].latitude),
                          Degrees(Heatmap[b].longitude)>>
            Members(b) == {i \in 1..Len(points) : Rounded(i) = Place(b)}
        IN /\ \A i \in 1..Len(points) :
                 \E b \in 1..Len(Heatmap) : i \in Members(b)
           /\ \A b \in 1..Len(Heatmap), c \in 1..Len(Heatmap) :
                 b # c => Place(b) # Place(c)
           /\ \A b \in 1..Len(Heatmap) :
                 /\ Heatmap[b].intensity = Cardinality(Members(b))
                 /\ Heatmap[b].intensity > 0
                 /\ RangeOf(Heatmap[b].sessions) =
                        {points[i].session : i \in Members(b)}
                 /\ RangeOf(Heatmap[b].cameras) =
                        {points[i].camera : i \in Members(b)}
                 /\ RangeOf(Heatmap[b].anomalyTypes) =
                        {points[i].anomalyType : i \in Members(b)}
                 /\ Distinct(Heatmap[b].sessions)
                 /\ Distinct(Heatmap[b].cameras)
                 /\ Distinct(Heatmap[b].anomalyTypes)
           /\ body.totalPoints = Len(points)
           /\ SumOfIntensities(Heatmap, 1) = body.totalPoints
           /\ body.count = Len(Heatmap)

\* two points either side of zero, of two sessions, share the bucket of
\* latitude 0 at the default precision
C11_Witness ==
    /\ HeatmapSent
    /\ input.query.precision = Undefined
    /\ Len(input.allGPSData) = 2
    /\ input.allGPSData[1].latitude = -1
    /\ input.allGPSData[2].latitude = 1
    /\ Len(Heatmap) = 1
    /\ Heatmap[1].intensity = 2
    /\ Heatmap[1].sessions = <<"A", "B">>

(***************************************************************************)
(* getImagesInDirectory                                                    *)
(***************************************************************************)
\* /\.(jpg|jpeg|png|bmp|gif|webp)$/i.test(item), on the names of the model
IsImageName(item) == item \in {"x.jpg", "Y.PNG"}

\* a variant without the inner catch: the exception leaves the for loop and
\* reaches the outer catch
LeaveLoopOnItemError(rest, imageFiles) == [threw |-> TRUE, files |-> imageFiles]

\* the inner catch block: log, and go on with the next item
CatchItemError(rest, imageFiles) == rest

RECURSIVE ImageItems(_, _, _, _, _)
\* the for loop of getImagesInDirectory from item i on; the size and the
\* modification time are copied from the stat result and left out here
ImageItems(e, dirPath, items, i, imageFiles) ==
    IF i > Len(items) THEN [threw |-> FALSE, files |-> imageFiles]
    ELSE LET item == items[i]
             itemPath == PathJoin(dirPath, item)
         IN IF itemPath \in e.statFail
            THEN CatchItemError(
                     ImageItems(e, dirPath, items, i + 1, imageFiles),
                     imageFiles)
            ELSE IF itemPath \in files /\ IsImageName(item)
            THEN ImageItems(e, dirPath, items, i + 1,
                            Append(imageFiles, [name |-> item]))
            ELSE ImageItems(e, dirPath, items, i + 1, imageFiles)

\* the comparefn of imageFiles.sort
CompareImages(a, b) == LocaleCompare(a.name, b.name)

\* the promise getImagesInDirectory(dirPath) settles to: readdir fails on a
\* path that is missing, is a file, or cannot be read, and the outer catch
\* returns []
GetImagesInDirectory(e, dirPath) ==
    LET r == IF dirPath \notin dirs \/ dirPath \in e.readdirFail
             THEN [threw |-> TRUE, files |-> <<>>]
             ELSE ImageItems(e, dirPath, e.listing[dirPath], 1, <<>>)
    IN IF r.threw THEN [state |-> "fulfilled", value |-> <<>>]
       ELSE [state |-> "fulfilled",
             value |-> ArraySort(r.files,
                          [p \in RangeOf(r.files) \X RangeOf(r.files) |->
                              CompareImages(p[1], p[2])])]

ImagesPath == <<"A", "cam1", "crack", "images">>

\* what an images directory can hold: images, another file, a subdirectory
ImageCandidateFiles ==
    { PathJoin(ImagesPath, "x.jpg"),
      PathJoin(ImagesPath, "Y.PNG"),
      PathJoin(ImagesPath, "notes.txt"),
      PathJoin(PathJoin(ImagesPath, "thumbs"), "x.jpg") }

\* the paths a caller asks for: the directory, one of its files, one of its
\* subdirectories
ImageRequests ==
    {ImagesPath, PathJoin(ImagesPath, "x.jpg"), PathJoin(ImagesPath, "thumbs")}

InitImages ==
    /\ files \in {fs \in SUBSET ImageCandidateFiles : Cardinality(fs) <= MaxFiles}
    /\ dirs = DirsOf(files)
    /\ content = <<>>
    /\ env = NoEnv
    /\ input = NoInput
    /\ output = NoOutput
    /\ alive = TRUE

\* a caller awaits getImagesInDirectory(dirPath)
CallImages ==
    /\ alive
    /\ output.op = "none"
    /\ \E dirPath \in ImageRequests, l \in ListingsOver(dirs), fl \in FaultSets :
          LET e == [listing |-> l,
                    readdirFail |-> {c[2] : c \in {x \in fl : x[1] = "readdir"}},
                    statFail |-> {c[2] : c \in {x \in fl : x[1] = "stat"}},
                    readFault |-> <<>>]
              r == GetImagesInDirectory(e, dirPath)
          IN /\ env' = e
             /\ input' = [dirPath |-> dirPath]
             /\ output' = [op |-> "images", state |-> r.state, value |-> r.value]
    /\ UNCHANGED <<dirs, files, content, alive>>

NextImages == CallImages \/ Finish

SpecImages == InitImages /\ [][NextImages]_vars

(***************************************************************************)
(* Properties of getImagesInDirectory (checked under SpecImages)           *)
(***************************************************************************)
ImagesDone == output.op = "images"

Unlistable(dirPath) == dirPath \notin dirs \/ dirPath \in env.readdirFail

\* the image files of the directory whose stat succeeds
StatableImages(dirPath) ==
    {item \in Children(dirPath) :
        /\ PathJoin(dirPath, item) \in files
        /\ IsImageName(item)
        /\ PathJoin(dirPath, item) \notin env.statFail}

\* C12: getImagesInDirectory never rejects; on a directory that is missing or
\* cannot be read it resolves with the empty sequence, and on a readable one a
\* failing stat only omits its item: every other image file is listed.
C12_ImagesNeverReject ==
    ImagesDone =>
        /\ output.state = "fulfilled"
        /\ Unlistable(input.dirPath) => output.value = <<>>
        /\ ~Unlistable(input.dirPath) =>
              /\ {output.value[k].name : k \in 1..Len(output.value)} =
                     StatableImages(input.dirPath)
              /\ Len(output.value) = Cardinality(StatableImages(input.dirPath))

\* the stat of the image listed first fails and the image listed after it is
\* returned
C12_Witness ==
    /\ ImagesDone
    /\ input.dirPath = ImagesPath
    /\ ~Unlistable(ImagesPath)
    /\ Len(env.listing[ImagesPath]) >= 2
    /\ PathJoin(ImagesPath, env.listing[ImagesPath][1]) \in env.statFail
    /\ IsImageName(env.listing[ImagesPath][1])
    /\ Len(output.value) = 1
    /\ output.value[1].name = env.listing[ImagesPath][2]

(***************************************************************************)
(* GET /api/metadata/scan                                                  *)
(***************************************************************************)
\* path.dirname(file.path)
Dirname(filePath) == SubSeq(filePath, 1, Len(filePath) - 1)

\* Math.min(...numbers), Math.max(...numbers) of a non-empty array
MathMin(numbers) == CHOOSE x \in RangeOf(numbers) : \A y \in RangeOf(numbers) : x <= y

MathMax(numbers) == CHOOSE x \in RangeOf(numbers) : \A y \in RangeOf(numbers) : x >= y

\* images.slice(0, n)
Slice(array, n) == SubSeq(array, 1, IF Len(array) < n THEN Len(array) ELSE n)

\* the entry pushed when the table was read and its images were listed
EnhancedFile(file, metadataData, gpsData, images) ==
    [session |-> file.session,
     camera |-> file.camera,
     anomalyType |-> file.anomalyType,
     path |-> file.relativePath,
     recordCount |-> Len(metadataData),
     imageCount |-> Len(images),
     gpsCount |-> Len(gpsData),
     hasImages |-> Len(images) > 0,
     hasGPS |-> Len(gpsData) > 0,
     sampleImages |-> [k \in 1..Len(Slice(images, 3)) |-> images[k].name],
     imagesPath |-> <<file.session, file.camera, file.anomalyType, "images">>,
     gpsStats |->
         IF Len(gpsData) > 0
         THEN LET latitudes == [k \in 1..Len(gpsData) |-> gpsData[k].latitude]
                  longitudes == [k \in 1..Len(gpsData) |-> gpsData[k].longitude]
              IN [firstTimestamp |-> gpsData[1].timestamp,
                  lastTimestamp |-> gpsData[Len(gpsData)].timestamp,
                  latRange |-> <<MathMin(latitudes), MathMax(latitudes)>>,
                  lngRange |-> <<MathMin(longitudes), MathMax(longitudes)>>]
         ELSE [none |-> Null]]

\* the entry the catch block pushes
FailedFile(file) ==
    [session |-> file.session,
     camera |-> file.camera,
     anomalyType |-> file.anomalyType,
     path |-> file.relativePath,
     recordCount |-> 0,
     imageCount |-> 0,
     gpsCount |-> 0,
     hasImages |-> FALSE,
     hasGPS |-> FALSE,
     error |-> "error.message"]

RECURSIVE EnhanceFiles(_, _, _, _)
\* for (const file of metadataFiles) try { ... } catch { push }, from file i on
EnhanceFiles(e, metadataFiles, i, acc) ==
    IF i > Len(metadataFiles) THEN acc
    ELSE LET file == metadataFiles[i]
             metadataData == ReadCSV(e, file.path)
             gpsData == ExtractGPSData(metadataData.value, file.session,
                                       file.camera, file.anomalyType)
             images == GetImagesInDirectory(e, PathJoin(Dirname(file.path),
                                                        "images"))
         IN IF metadataData.state = "unhandled"
            THEN [acc EXCEPT !.crashed = TRUE]
            ELSE IF metadataData.state = "rejected"
            THEN EnhanceFiles(e, metadataFiles, i + 1,
                     [acc EXCEPT !.files = Append(@, FailedFile(file))])
            ELSE EnhanceFiles(e, metadataFiles, i + 1,
                     [acc EXCEPT !.files =
                         Append(@, EnhancedFile(file, metadataData.value,
                                                gpsData, images.value))])

RECURSIVE SumOf(_, _, _)
\* array.reduce((sum, f) => sum + f[field], 0), from element k on
SumOf(array, field, k) ==
    IF k > Len(array) THEN 0 ELSE array[k][field] + SumOf(array, field, k + 1)

\* the handler: what it responds, or that the process died before it could
MetadataScan(e) ==
    LET metadataFiles == ScanForMetadataFiles(e, BasePath)
        enhanced == EnhanceFiles(e, metadataFiles.value, 1,
                                 [files |-> <<>>, crashed |-> FALSE])
        enhancedFiles == enhanced.files
    IN IF metadataFiles.state = "rejected"
       THEN [crashed |-> FALSE, status |-> 500, body |-> [success |-> FALSE]]
       ELSE IF enhanced.crashed THEN [crashed |-> TRUE]
       ELSE [crashed |-> FALSE, status |-> 200,
             body |-> [success |-> TRUE,
                       count |-> Len(enhancedFiles),
                       files |-> enhancedFiles,
                       summary |->
                           [totalFiles |-> Len(enhancedFiles),
                            filesWithImages |->
                                Len(SelectSeq(enhancedFiles,
                                              LAMBDA f : f.hasImages)),
                            filesWithGPS |->
                                Len(SelectSeq(enhancedFiles,
                                              LAMBDA f : f.hasGPS)),
                            totalImages |-> SumOf(enhancedFiles, "imageCount", 1),
                            totalGPSPoints |->
                                SumOf(enhancedFiles, "gpsCount", 1)]]]

\* the tree of the requests on the catalog: two tables, the images of one
CatalogFiles == TablePaths \cup {PathJoin(ImagesPath, "x.jpg")}

InitCatalog ==
    /\ files \in SUBSET CatalogFiles
    /\ dirs = DirsOf(files)
    /\ content \in ContentsOver(files \cap TablePaths)
    /\ env = NoEnv
    /\ input = NoInput
    /\ output = NoOutput
    /\ alive = TRUE

\* a client requests GET /api/metadata/scan
GetMetadataScan ==
    /\ alive
    /\ output.op = "none"
    /\ \E l \in ListingsOver(dirs), fl \in ViewScanFaults,
          rf \in ReadFaultsOver(files \cap TablePaths) :
          LET e == [listing |-> l,
                    readdirFail |-> {c[2] : c \in {x \in fl : x[1] = "readdir"}},
                    statFail |-> {c[2] : c \in {x \in fl : x[1] = "stat"}},
                    readFault |-> rf]
              r == MetadataScan(e)
          IN /\ env' = e
             /\ alive' = ~r.crashed
             /\ output' = IF r.crashed
                          THEN [op |-> "metadataScan", responded |-> FALSE]
                          ELSE [op |-> "metadataScan", responded |-> TRUE,
                                status |-> r.status, body |-> r.body]
    /\ UNCHANGED <<dirs, files, content, input>>

NextMetadataScan == GetMetadataScan \/ Finish

SpecMetadataScan == InitCatalog /\ [][NextMetadataScan]_vars

(***************************************************************************)
(* Properties of the aggregate views (checked under SpecMetadataScan)      *)
(***************************************************************************)
\* the entry of a catalog file when nothing fails
CleanEntry(file) ==
    LET clean == [env EXCEPT !.readFault = <<>>]
        rows == content[file.path]
    IN EnhancedFile(file, rows,
                    ExtractGPSData(rows, file.session, file.camera,
                                   file.anomalyType),
                    GetImagesInDirectory(clean,
                        PathJoin(Dirname(file.path), "images")).value)

\* C13: a read or parse failure of one catalog entry's table is caught for
\* that entry alone: the response is a success, the failing entry is not in
\* the aggregate, and the other entries are what they are without it.
C13_EntryFailureIsolated ==
    (/\ output.op = "metadataScan"
     /\ NoScanFault
     /\ \E f \in files \cap TablePaths : ~Readable(f)) =>
        LET catalog == ScanForMetadataFiles(env, BasePath).value
            readable == SelectSeq(catalog, LAMBDA file : Readable(file.path))
        IN /\ output.responded
           /\ output.status = 200
           /\ output.body.success
           /\ output.body.files =
                  [k \in 1..Len(readable) |-> CleanEntry(readable[k])]
           /\ output.body.count = Len(readable)

(***************************************************************************)
(* The endpoints on one table: /api/metadata/:session/:camera/:anomalyType,*)
(* /api/metadata-with-images/..., /api/gps/...                             *)
(***************************************************************************)
\* path.join(DATA_PATH, session, camera, anomalyType, 'metadata.csv')
MetadataPath(session, camera, anomalyType) ==
    <<session, camera, anomalyType, "metadata.csv">>

\* the gps part of a response
GpsPart(gpsData) ==
    [count |-> Len(gpsData), data |-> gpsData, hasGPS |-> Len(gpsData) > 0]

\* a variant of TableMetadata with the inner try/catch of
\* /api/metadata-with-images around readCSV
TableMetadataTolerant(e, session, camera, anomalyType) ==
    LET read == ReadCSV(e, MetadataPath(session, camera, anomalyType))
        metadataData == IF read.state = "fulfilled" THEN read.value ELSE <<>>
    IN IF read.state = "unhandled" THEN [crashed |-> TRUE]
       ELSE [crashed |-> FALSE, status |-> 200,
             body |-> [success |-> TRUE, count |-> Len(metadataData),
                       data |-> metadataData,
                       gps |-> GpsPart(ExtractGPSData(metadataData, session,
                                                      camera, anomalyType))]]

\* GET /api/metadata/:session/:camera/:anomalyType
TableMetadata(e, session, camera, anomalyType) ==
    LET metadataData == ReadCSV(e, MetadataPath(session, camera, anomalyType))
    IN IF metadataData.state = "unhandled" THEN [crashed |-> TRUE]
       ELSE IF metadataData.state = "rejected"
       THEN [crashed |-> FALSE, status |-> 404, body |-> [success |-> FALSE]]
       ELSE [crashed |-> FALSE, status |-> 200,
             body |-> [success |-> TRUE, count |-> Len(metadataData.value),
                       data |-> metadataData.value,
                       gps |-> GpsPart(ExtractGPSData(metadataData.value, session,
                                                      camera, anomalyType))]]

\* GET /api/metadata-with-images/:session/:camera/:anomalyType: the rejection
\* of readCSV is caught next to the call and metadataData stays []
TableWithImages(e, session, camera, anomalyType) ==
    LET read == ReadCSV(e, MetadataPath(session, camera, anomalyType))
        metadataData == IF read.state = "fulfilled" THEN read.value ELSE <<>>
        gpsData == ExtractGPSData(metadataData, session, camera, anomalyType)
        imageFiles == GetImagesInDirectory(e, <<session, camera, anomalyType,
                                                "images">>).value
    IN IF read.state = "unhandled" THEN [crashed |-> TRUE]
       ELSE [crashed |-> FALSE, status |-> 200,
             body |-> [success |-> TRUE,
                       metadata |-> [count |-> Len(metadataData),
                                     data |-> metadataData],
                       images |-> [count |-> Len(imageFiles),
                                   data |-> imageFiles],
                       gps |-> GpsPart(gpsData)]]

\* GET /api/gps/:session/:camera/:anomalyType
TableGPS(e, session, camera, anomalyType) ==
    LET metadataData == ReadCSV(e, MetadataPath(session, camera, anomalyType))
        gpsData == ExtractGPSData(metadataData.value, session, camera, anomalyType)
        latitudes == [k \in 1..Len(gpsData) |-> gpsData[k].latitude]
        longitudes == [k \in 1..Len(gpsData) |-> gpsData[k].longitude]
    IN IF metadataData.state = "unhandled" THEN [crashed |-> TRUE]
       ELSE IF metadataData.state = "rejected"
       THEN [crashed |-> FALSE, status |-> 500, body |-> [success |-> FALSE]]
       ELSE IF Len(gpsData) = 0
       THEN [crashed |-> FALSE, status |-> 404,
             body |-> [success |-> FALSE, gpsCount |-> 0]]
       ELSE [crashed |-> FALSE, status |-> 200,
             body |-> [success |-> TRUE, count |-> Len(gpsData),
                       data |-> gpsData,
                       bounds |->
                           [latRange |-> <<MathMin(latitudes), MathMax(latitudes)>>,
                            lngRange |-> <<MathMin(longitudes),
                                           MathMax(longitudes)>>]]]

\* the route parameters of the requests: a table of the tree, and a triple
\* whose directory holds no metadata.csv
TableRequests ==
    { [session |-> "A", camera |-> "cam1", anomalyType |-> "crack"],
      [session |-> "A", camera |-> "cam2", anomalyType |-> "general"] }

\* the environments of a request on one table
TableEnvs ==
    {[listing |-> l, readdirFail |-> {}, statFail |-> {}, readFault |-> rf] :
        l \in ListingsOver(dirs), rf \in ReadFaultsOver(files \cap TablePaths)}

\* what a handler's result leaves behind
Answer(op, r) ==
    IF r.crashed THEN [op |-> op, responded |-> FALSE]
    ELSE [op |-> op, responded |-> TRUE, status |-> r.status, body |-> r.body]

GetTableMetadata ==
    /\ alive
    /\ output.op = "none"
    /\ \E q \in TableRequests, e \in TableEnvs :
          LET r == TableMetadata(e, q.session, q.camera, q.anomalyType)
          IN /\ env' = e
             /\ input' = q
             /\ alive' = ~r.crashed
             /\ output' = Answer("metadata", r)
    /\ UNCHANGED <<dirs, files, content>>

GetTableWithImages ==
    /\ alive
    /\ output.op = "none"
    /\ \E q \in TableRequests, e \in TableEnvs :
          LET r == TableWithImages(e, q.session, q.camera, q.anomalyType)
          IN /\ env' = e
             /\ input' = q
             /\ alive' = ~r.crashed
             /\ output' = Answer("metadata-with-images", r)
    /\ UNCHANGED <<dirs, files, content>>

GetTableGPS ==
    /\ alive
    /\ output.op = "none"
    /\ \E q \in TableRequests, e \in TableEnvs :
          LET r == TableGPS(e, q.session, q.camera, q.anomalyType)
          IN /\ env' = e
             /\ input' = q
             /\ alive' = ~r.crashed
             /\ output' = Answer("gps", r)
    /\ UNCHANGED <<dirs, files, content>>

NextTable == GetTableMetadata \/ GetTableWithImages \/ GetTableGPS \/ Finish

SpecTable == InitCatalog /\ [][NextTable]_vars

(***************************************************************************)
(* Properties of the endpoints on one table (checked under SpecTable)      *)
(***************************************************************************)
TableOps == {"metadata", "metadata-with-images", "gps"}

\* the addressed table is absent (NotFound) or its parse fails
RequestedTableFails ==
    LET metadataPath == MetadataPath(input.session, input.camera,
                                     input.anomalyType)
    IN \/ metadataPath \notin files \cup dirs
       \/ metadataPath \in files /\ ReadFault(env, metadataPath) = "parse"

\* C14, as stated: on every endpoint that addresses one table, a NotFound or
\* parse failure of the table is answered with a non-success response.
C14_TableFailureReported ==
    (output.op \in TableOps /\ RequestedTableFails) =>
        /\ output.responded
        /\ output.status # 200
        /\ ~output.body.success

\* C14, amended: /api/metadata and /api/gps answer a NotFound or parse failure
\* of their table with a non-success response (404, 500);
\* /api/metadata-with-images answers it with a success response whose
\* metadata and gps parts are empty.
C14_TableFailureReportedOrEmpty ==
    (output.op \in TableOps /\ RequestedTableFails) =>
        /\ output.responded
        /\ output.op = "metadata" =>
              output.status = 404 /\ ~output.body.success
        /\ output.op = "gps" =>
              output.status = 500 /\ ~output.body.success
        /\ output.op = "metadata-with-images" =>
              /\ output.status = 200 /\ output.body.success
              /\ output.body.metadata.count = 0
              /\ output.body.gps.count = 0

\* the parse of an existing table fails under /api/metadata: 404
C14_Witness ==
    /\ output.op = "metadata"
    /\ MetadataPath(input.session, input.camera, input.anomalyType) \in files
    /\ RequestedTableFails
    /\ output.responded
    /\ output.status = 404

\* C15: no error is fatal to the process: whatever the filesystem does during
\* a request, the request ends in an error response or a success response and
\* the server stays up.
C15_NoFatalError ==
    /\ alive
    /\ output.op \in TableOps => output.responded

(***************************************************************************)
(* readCSV, event by event.  output holds the promise, the results array   *)
(* and the state of the pipe createReadStream(filePath).pipe(csv()); env   *)
(* holds what the filesystem will do to the read.                          *)
(***************************************************************************)
\* the paths readCSV is called with: tables of the tree or not, a directory
ReadRequests == TablePaths \cup {<<"A", "cam1">>}

\* what can happen to the read of filePath: a directory cannot be read
FatesOf(filePath) ==
    IF filePath \in dirs THEN {"stream"} ELSE {"none", "stream", "parse"}

\* readCSV(filePath) up to its return: the existsSync test, then the pipe
\* with its three listeners on the parser
CallReadCSV ==
    /\ alive
    /\ output.op = "none"
    /\ \E filePath \in ReadRequests :
          /\ input' = [filePath |-> filePath]
          /\ IF filePath \notin files \cup dirs
             THEN /\ env' = NoEnv
                  /\ output' = [op |-> "readCSV", promise |-> "rejected",
                                results |-> <<>>, position |-> 0,
                                stream |-> "none"]
             ELSE \E fate \in FatesOf(filePath) :
                  /\ env' = [NoEnv EXCEPT !.readFault = (filePath :> fate)]
                  /\ output' = [op |-> "readCSV", promise |-> "pending",
                                results |-> <<>>, position |-> 0,
                                stream |-> "open"]
    /\ UNCHANGED <<dirs, files, content, alive>>

\* .on('data', (data) => results.push(data))
ParserData ==
    /\ alive
    /\ output.op = "readCSV" /\ output.stream = "open"
    /\ input.filePath \in files
    /\ output.position < Len(content[input.filePath])
    /\ output' = [output EXCEPT
                     !.position = @ + 1,
                     !.results = Append(@, content[input.filePath][output.position + 1])]
    /\ UNCHANGED <<dirs, files, content, env, input, alive>>

\* .on('end', () => resolve(results))
ParserEnd ==
    /\ alive
    /\ output.op = "readCSV" /\ output.stream = "open"
    /\ input.filePath \in files
    /\ ReadFault(env, input.filePath) = "none"
    /\ output.position = Len(content[input.filePath])
    /\ output' = [output EXCEPT !.stream = "ended", !.promise = "fulfilled"]
    /\ UNCHANGED <<dirs, files, content, env, input, alive>>

\* .on('error', reject): the listener is on the parser, and hears its errors
ParserError ==
    /\ alive
    /\ output.op = "readCSV" /\ output.stream = "open"
    /\ ReadFault(env, input.filePath) = "parse"
    /\ output' = [output EXCEPT !.stream = "errored", !.promise = "rejected"]
    /\ UNCHANGED <<dirs, files, content, env, input, alive>>

\* the file stream emits 'error' (EISDIR, EACCES, ENOENT after existsSync, an
\* I/O error mid-read): it has no listener, pipe forwards no error, so the
\* event is thrown as an uncaught exception; nothing settles the promise
FileStreamError ==
    /\ alive
    /\ output.op = "readCSV" /\ output.stream = "open"
    /\ ReadFault(env, input.filePath) = "stream"
    /\ output' = [output EXCEPT !.stream = "errored"]
    /\ alive' = FALSE
    /\ UNCHANGED <<dirs, files, content, env, input>>

\* the caller's await returns or throws
AwaitReadCSV ==
    /\ alive
    /\ output.op = "readCSV" /\ output.promise # "pending"
    /\ env' = NoEnv
    /\ input' = NoInput
    /\ output' = NoOutput
    /\ UNCHANGED <<dirs, files, content, alive>>

NextReadCSV ==
    \/ CallReadCSV \/ ParserData \/ ParserEnd \/ ParserError
    \/ FileStreamError \/ AwaitReadCSV

SpecReadCSV == InitCatalog /\ [][NextReadCSV]_vars

(***************************************************************************)
(* Properties of readCSV (checked under SpecReadCSV)                       *)
(***************************************************************************)
\* the read is over: no event of the pipe is to come
ReadOver == output.op = "readCSV" /\ output.stream # "open"

\* C17: every call of readCSV settles: once the read is over the promise is
\* rejected when the file was absent at call time or a stream of the pipe
\* errored (the file stream included), and fulfilled with the rows otherwise;
\* it is not left pending.
C17_ReadSettles ==
    ReadOver =>
        /\ output.promise # "pending"
        /\ output.stream = "none" => output.promise = "rejected"
        /\ output.stream = "errored" => output.promise = "rejected"
        /\ output.stream = "ended" =>
              /\ output.promise = "fulfilled"
              /\ output.results = content[input.filePath]

(***************************************************************************)
(* GET /api/gps-data/metadata                                              *)
(***************************************************************************)
\* if (!counts[key]) counts[key] = 0; counts[key] += n, for n > 0
AddCount(counts, key, n) ==
    IF key \in DOMAIN counts THEN [counts EXCEPT ![key] = @ + n]
    ELSE counts @@ (key :> n)

\* allGPSData and gpsStats before the loop
NewView(metadataFiles) ==
    [data |-> <<>>,
     statistics |-> [totalFiles |-> Len(metadataFiles), filesWithGPS |-> 0,
                     totalGPSPoints |-> 0, sessions |-> <<>>,
                     cameras |-> <<>>, anomalyTypes |-> <<>>],
     crashed |-> FALSE]

\* one turn of the loop: try { readCSV; extractGPSData; ... } catch { log }
ViewFile(e, file, view) ==
    LET metadataData == ReadCSV(e, file.path)
        gpsData == ExtractGPSData(metadataData.value, file.session,
                                  file.camera, file.anomalyType)
        gpsStats == view.statistics
    IN IF metadataData.state = "unhandled" THEN [view EXCEPT !.crashed = TRUE]
       ELSE IF metadataData.state = "rejected" \/ Len(gpsData) = 0 THEN view
       ELSE [data |-> view.data \o gpsData,
             statistics |->
                 [totalFiles |-> gpsStats.totalFiles,
                  filesWithGPS |-> gpsStats.filesWithGPS + 1,
                  totalGPSPoints |-> gpsStats.totalGPSPoints + Len(gpsData),
                  sessions |-> AddCount(gpsStats.sessions, file.session,
                                        Len(gpsData)),
                  cameras |-> AddCount(gpsStats.cameras, file.camera,
                                       Len(gpsData)),
                  anomalyTypes |-> AddCount(gpsStats.anomalyTypes,
                                            file.anomalyType, Len(gpsData))],
             crashed |-> FALSE]

RECURSIVE ViewFiles(_, _, _, _)
\* the loop from file i on; the process dies with the first unhandled error
ViewFiles(e, metadataFiles, i, view) ==
    IF i > Len(metadataFiles) \/ view.crashed THEN view
    ELSE ViewFiles(e, metadataFiles, i + 1, ViewFile(e, metadataFiles[i], view))

\* allGPSData.sort(...) and res.json(...)
ViewResponse(view) ==
    LET allGPSData == ArraySort(view.data,
                          [p \in RangeOf(view.data) \X RangeOf(view.data)
                              |-> CompareTimestamps(p[1], p[2])])
    IN [crashed |-> FALSE, status |-> 200,
        body |-> [success |-> TRUE, count |-> Len(allGPSData),
                  data |-> allGPSData, statistics |-> view.statistics]]

\* the answer of the outer catch
ViewFailure == [crashed |-> FALSE, status |-> 500, body |-> [success |-> FALSE]]

\* the handler: what it responds, or that the process died before it could
MetadataGPSView(e) ==
    LET metadataFiles == ScanForMetadataFiles(e, BasePath)
        view == ViewFiles(e, metadataFiles.value, 1, NewView(metadataFiles.value))
    IN IF metadataFiles.state = "rejected" THEN ViewFailure
       ELSE IF view.crashed THEN [crashed |-> TRUE]
       ELSE ViewResponse(view)

(***************************************************************************)
(* Two requests in flight at once.  A handler runs from one await to the   *)
(* next without interruption; between two awaits the other request can     *)
(* take steps.  Each request's locals (metadataFiles, the loop position,   *)
(* allGPSData and gpsStats) are in its own record of output.requests; the  *)
(* tree and the behaviour of the filesystem, env, are the same for both.   *)
(***************************************************************************)
RequestIds == {1, 2}

ConcurrentFiles ==
    { <<"A", "cam1", "crack", "metadata.csv">>,
      <<"B", "cam1", "pothole", "metadata.csv">> }

\* the requests: the metadata GPS view, or the table of one triple
RequestKinds ==
    { [kind |-> "view", session |-> Null, camera |-> Null, anomalyType |-> Null],
      [kind |-> "table", session |-> "A", camera |-> "cam1",
       anomalyType |-> "crack"],
      [kind |-> "table", session |-> "B", camera |-> "cam1",
       anomalyType |-> "pothole"] }

NoResponse == [crashed |-> FALSE, status |-> 0, body |-> [success |-> FALSE]]

\* a request that has not reached the server yet
IdleRequest ==
    [pc |-> "idle", metadataFiles |-> <<>>, i |-> 0, view |-> NewView(<<>>),
     response |-> NoResponse]

InitConcurrent ==
    /\ files \in SUBSET ConcurrentFiles
    /\ dirs = DirsOf(files)
    /\ content \in ContentsOver(files)
    /\ env \in {[listing |-> l, readdirFail |-> {}, statFail |-> {},
                 readFault |-> rf] :
                   l \in ListingsOver(dirs), rf \in ReadFaultsOver(files)}
    /\ input \in [requests : [RequestIds -> RequestKinds]]
    /\ output = [op |-> "concurrent", requests |-> [r \in RequestIds |-> IdleRequest]]
    /\ alive = TRUE

\* request r gets its record to req
Becomes(r, req) == output' = [output EXCEPT !.requests[r] = req]

\* the handler of request r starts and runs to its first await
Arrive(r) ==
    /\ alive
    /\ output.requests[r].pc = "idle"
    /\ Becomes(r, [output.requests[r] EXCEPT
                      !.pc = IF input.requests[r].kind = "view"
                             THEN "scanning" ELSE "reading"])
    /\ UNCHANGED <<dirs, files, content, env, input, alive>>

\* await scanForMetadataFiles(DATA_PATH) returns to the view
Scanned(r) ==
    /\ alive
    /\ output.requests[r].pc = "scanning"
    /\ LET metadataFiles == ScanForMetadataFiles(env, BasePath)
       IN IF metadataFiles.state = "rejected"
          THEN Becomes(r, [output.requests[r] EXCEPT
                              !.pc = "responded", !.response = ViewFailure])
          ELSE Becomes(r, [output.requests[r] EXCEPT
                              !.pc = "files",
                              !.metadataFiles = metadataFiles.value,
                              !.i = 1,
                              !.view = NewView(metadataFiles.value)])
    /\ UNCHANGED <<dirs, files, content, env, input, alive>>

\* await readCSV(file.path) of the view's loop settles, or the read stream
\* errors and the process dies
ReadFile(r) ==
    LET req == output.requests[r]
    IN /\ alive
       /\ req.pc = "files"
       /\ req.i <= Len(req.metadataFiles)
       /\ LET view == ViewFile(env, req.metadataFiles[req.i], req.view)
          IN IF view.crashed
             THEN alive' = FALSE /\ UNCHANGED output
             ELSE /\ Becomes(r, [req EXCEPT !.view = view, !.i = @ + 1])
                  /\ UNCHANGED alive
       /\ UNCHANGED <<dirs, files, content, env, input>>

\* the loop of the view is over: sort and respond
RespondView(r) ==
    LET req == output.requests[r]
    IN /\ alive
       /\ req.pc = "files"
       /\ req.i > Len(req.metadataFiles)
       /\ Becomes(r, [req EXCEPT !.pc = "responded",
                                 !.response = ViewResponse(req.view)])
       /\ UNCHANGED <<dirs, files, content, env, input, alive>>

\* await readCSV(metadataPath) of /api/metadata/... settles and the handler
\* responds, or the read stream errors and the process dies
ReadTable(r) ==
    LET req == output.requests[r]
        q == input.requests[r]
        response == TableMetadata(env, q.session, q.camera, q.anomalyType)
    IN /\ alive
       /\ req.pc = "reading"
       /\ IF response.crashed
          THEN alive' = FALSE /\ UNCHANGED output
          ELSE /\ Becomes(r, [req EXCEPT !.pc = "responded",
                                         !.response = response])
               /\ UNCHANGED alive
       /\ UNCHANGED <<dirs, files, content, env, input>>

NextConcurrent ==
    \E r \in RequestIds :
        \/ Arrive(r) \/ Scanned(r) \/ ReadFile(r) \/ RespondView(r)
        \/ ReadTable(r)

SpecConcurrent == InitConcurrent /\ [][NextConcurrent]_vars

(***************************************************************************)
(* Properties of concurrent requests (checked under SpecConcurrent)        *)
(***************************************************************************)
\* what the request answers when it is the only one
Alone(q) ==
    IF q.kind = "view" THEN MetadataGPSView(env)
    ELSE TableMetadata(env, q.session, q.camera, q.anomalyType)

\* the handler of the request has started and has not responded
InFlight(r) == output.requests[r].pc \notin {"idle", "responded"}

\* C16: under every interleaving of two requests at their awaits, a request
\* answers what it answers when run alone: a response it sends is the
\* response of the lone run, and no request that answers when run alone is
\* left without its response.
C16_ResponseAsAlone ==
    \A r \in RequestIds :
        LET alone == Alone(input.requests[r])
        IN /\ output.requests[r].pc = "responded" =>
                 /\ ~alone.crashed
                 /\ output.requests[r].response = alone
           /\ (~alive /\ InFlight(r)) => alone.crashed

(***************************************************************************)
(* Partial scans (checked under SpecScan)                                  *)
(***************************************************************************)
\* path f is item p or lies in the subtree of p
Within(f, p) == Len(p) <= Len(f) /\ SubSeq(f, 1, Len(p)) = p

\* the items whose stat fails and the directories whose readdir fails
FailingItems == env.statFail \cup env.readdirFail

\* C18: a failure while scanning skips only the failing subtree: every
\* metadata.csv outside the subtree of each item whose stat or readdir fails
\* is in the returned catalog, also when it lies in a sibling listed after
\* the failing item.
C18_OnlyFailingSubtreeSkipped ==
    ScanDone =>
        \A f \in MetadataFilesOnDisk :
            (\A p \in FailingItems : ~Within(f, p)) =>
                \E k \in 1..Len(Catalog) : Catalog[k].path = f

(***************************************************************************)
(* allGPSData.sort(comparefn) of the two GPS views, on its own             *)
(***************************************************************************)
MaxSorted == 4

\* the timestamps of the merged points: none (timestamp is null), a date, or
\* a text that new Date() does not understand
TimestampUniverse == {Null, "2024-01-01", "2024-01-02", "2024-01-03", "soon"}

\* the merged points with the given timestamps, told apart by recordIndex
PointsOf(timestamps) ==
    [k \in 1..Len(timestamps) |->
        [timestamp |-> timestamps[k], recordIndex |-> k - 1]]

InitSort ==
    /\ files = {}
    /\ dirs = {<<>>}
    /\ content = <<>>
    /\ env = NoEnv
    /\ input \in {[allGPSData |-> PointsOf(timestamps)] :
                     timestamps \in SeqUpTo(TimestampUniverse, MaxSorted)}
    /\ output = NoOutput
    /\ alive = TRUE

\* allGPSData.sort((a, b) => ...)
SortByTimestamp ==
    /\ alive
    /\ output.op = "none"
    /\ output' = [op |-> "sort",
                  value |-> ArraySort(input.allGPSData,
                               [p \in RangeOf(input.allGPSData)
                                        \X RangeOf(input.allGPSData)
                                   |-> CompareTimestamps(p[1], p[2])])]
    /\ UNCHANGED <<dirs, files, content, env, input, alive>>

\* the sorted array goes into the response
SendSorted ==
    /\ alive
    /\ output.op = "sort"
    /\ output' = NoOutput
    /\ UNCHANGED <<dirs, files, content, env, input, alive>>

NextSort == SortByTimestamp \/ SendSorted

SpecSort == InitSort /\ [][NextSort]_vars

(***************************************************************************)
(* Properties of the timestamp sort (checked under SpecSort)               *)
(***************************************************************************)
Sorted == IF output.op = "sort" THEN output.value ELSE <<>>

\* where the point that was at position i before the sort is after it
PlaceOf(i) ==
    CHOOSE k \in 1..Len(Sorted) : Sorted[k] = input.allGPSData[i]

LacksTimestamp(point) == ~Truthy(point.timestamp)

Parseable(point) == point.timestamp \in DOMAIN DateText

C20_SortedByTimestamp ==
    \A k \in 1..Len(Sorted), l \in 1..Len(Sorted) :
        (/\ k < l
         /\ Parseable(Sorted[k]) /\ Parseable(Sorted[l])) =>
            DateText[Sorted[k].timestamp] <= DateText[Sorted[l].timestamp]

InHeatmapUnits(gpsData) ==
    [k \in 1..Len(gpsData) |->
        [gpsData[k] EXCEPT !.latitude = @ * Pow10(Digits),
                           !.longitude = @ * Pow10(Digits)]]

\* the three continue statements of the loop: a filter that is given and
\* differs from the entry's value skips the entry
PassesFilters(file, query) ==
    /\ ~(Truthy(query.session) /\ file.session # query.session)
    /\ ~(Truthy(query.camera) /\ file.camera # query.camera)
    /\ ~(Truthy(query.anomalyType) /\ file.anomalyType # query.anomalyType)

RECURSIVE CollectFromCatalog(_, _, _, _, _)
\* for (const file of metadataFiles) try { ... } catch { log }, from file i on
CollectFromCatalog(e, query, metadataFiles, i, acc) ==
    IF i > Len(metadataFiles) \/ acc.crashed THEN acc
    ELSE LET file == metadataFiles[i]
             metadataData == ReadCSV(e, file.path)
             gpsData == ExtractGPSData(metadataData.value, file.session,
                                       file.camera, file.anomalyType)
         IN IF ~PassesFilters(file, query)
            THEN CollectFromCatalog(e, query, metadataFiles, i + 1, acc)
            ELSE IF metadataData.state = "unhandled"
            THEN [acc EXCEPT !.crashed = TRUE]
            ELSE IF metadataData.state = "rejected"
            THEN CollectFromCatalog(e, query, metadataFiles, i + 1, acc)
            ELSE CollectFromCatalog(e, query, metadataFiles, i + 1,
                     [acc EXCEPT !.data = @ \o InHeatmapUnits(gpsData)])

\* lines 1003-1027: allGPSData, or the exception that reaches the outer
\* catch, or the death of the process
CollectHeatmapPoints(e, query) ==
    IF Truthy(query.session) /\ Truthy(query.camera) /\ Truthy(query.anomalyType)
    THEN LET metadataData ==
                 ReadCSV(e, MetadataPath(query.session, query.camera,
                                         query.anomalyType))
         IN [crashed |-> metadataData.state = "unhandled",
             threw |-> metadataData.state = "rejected",
             data |-> InHeatmapUnits(
                          ExtractGPSData(metadataData.value, query.session,
                                         query.camera, query.anomalyType))]
    ELSE LET metadataFiles == ScanForMetadataFiles(e, BasePath)
         IN IF metadataFiles.state = "rejected"
            THEN [crashed |-> FALSE, threw |-> TRUE, data |-> <<>>]
            ELSE CollectFromCatalog(e, query, metadataFiles.value, 1,
                     [crashed |-> FALSE, threw |-> FALSE, data |-> <<>>])

\* the handler: what it responds, or that the process died before it could
HeatmapOfTree(e, query) ==
    LET collected == CollectHeatmapPoints(e, query)
        response == HeatmapResponse(collected.data, query)
    IN IF collected.crashed THEN [crashed |-> TRUE]
       ELSE IF collected.threw
       THEN [crashed |-> FALSE, status |-> 500, body |-> [success |-> FALSE]]
       ELSE [crashed |-> FALSE, status |-> response.status,
             body |-> response.body]

\* the tree of the heatmap requests: a table, a table below it with the same
\* triple, and a table two directories deep
HeatmapFiles ==
    { <<"A", "cam1", "crack", "metadata.csv">>,
      <<"A", "cam1", "crack", "deep", "metadata.csv">>,
      <<"A", "cam2", "metadata.csv">> }

HeatmapQueries ==
    [session : {Undefined, "A", "B"},
     camera : {Undefined, "cam1", "cam2"},
     anomalyType : {Undefined, "crack", "general"},
     precision : {Undefined}]

\* the read of at most one table fails
OneReadFault ==
    {<<>>} \cup {(f :> fault) : f \in files, fault \in {"stream", "parse"}}

InitHeatmapTree ==
    /\ files \in SUBSET HeatmapFiles
    /\ dirs = DirsOf(files)
    /\ content \in ContentsOver(files)
    /\ env = NoEnv
    /\ input = NoInput
    /\ output = NoOutput
    /\ alive = TRUE

\* a client requests GET /api/gps/heatmap?session=..&camera=..&anomalyType=..
RequestHeatmap ==
    /\ alive
    /\ output.op = "none"
    /\ \E query \in HeatmapQueries, l \in ListingsOver(dirs), rf \in OneReadFault :
          LET e == [listing |-> l, readdirFail |-> {}, statFail |-> {},
                    readFault |-> rf]
              r == HeatmapOfTree(e, query)
          IN /\ env' = e
             /\ input' = [query |-> query]
             /\ alive' = ~r.crashed
             /\ output' = Answer("heatmap-of-tree", r)
    /\ UNCHANGED <<dirs, files, content>>

NextHeatmapTree == RequestHeatmap \/ Finish

SpecHeatmapTree == InitHeatmapTree /\ [][NextHeatmapTree]_vars

(***************************************************************************)
(* Properties of the heatmap filters (checked under SpecHeatmapTree)       *)
(***************************************************************************)
RECURSIVE CatalogPoints(_, _)
\* the points of the tables of the scanned catalog, from entry i on
CatalogPoints(catalog, i) ==
    IF i > Len(catalog) THEN <<>>
    ELSE LET file == catalog[i]
         IN InHeatmapUnits(ExtractGPSData(content[file.path], file.session,
                                          file.camera, file.anomalyType))
            \o CatalogPoints(catalog, i + 1)

\* the provenance of the point equals every filter value that is given
MatchesFilters(point, query) ==
    /\ Truthy(query.session) => point.session = query.session
    /\ Truthy(query.camera) => point.camera = query.camera
    /\ Truthy(query.anomalyType) => point.anomalyType = query.anomalyType

\* the buckets of the matching points of the whole catalog
ExpectedBuckets ==
    LET catalog == ScanForMetadataFiles(env, BasePath).value
        matching == SelectSeq(CatalogPoints(catalog, 1),
                              LAMBDA point : MatchesFilters(point, input.query))
    IN HeatmapResponse(matching, input.query).body.data

AllThreeGiven ==
    /\ Truthy(input.query.session)
    /\ Truthy(input.query.camera)
    /\ Truthy(input.query.anomalyType)

\* C21: for every combination of given filters, all three together included,
\* the buckets returned are the buckets of those points of the whole scanned
\* catalog whose provenance equals every given filter value.
C21_FiltersArePreFilters ==
    (output.op = "heatmap-of-tree" /\ env.readFault = <<>>) =>
        /\ output.responded
        /\ output.status = 200
        /\ output.body.data = ExpectedBuckets

(***************************************************************************)
(* GET /api/search                                                         *)
(***************************************************************************)
\* new Date(text): the day of a text that is a date, NaN otherwise
DateOf(text) == IF text \in DOMAIN DateText THEN Num(DateText[text]) ELSE NaN

\* recordDate < new Date(bound): false when either date is invalid
DateBefore(a, b) == a # NaN /\ b # NaN /\ a.v < b.v

\* the callback of data.filter: a row without timestamp, date or created_at
\* is kept, and so is a row whose date compares with nothing
InDateRange(record, query) ==
    LET timestamp == OrCell(Get(record, "timestamp"),
                            OrCell(Get(record, "date"), Get(record, "created_at")))
        recordDate == DateOf(timestamp)
    IN IF ~Truthy(timestamp) THEN TRUE
       ELSE IF Truthy(query.startDate)
               /\ DateBefore(recordDate, DateOf(query.startDate)) THEN FALSE
       ELSE IF Truthy(query.endDate)
               /\ DateBefore(DateOf(query.endDate), recordDate) THEN FALSE
       ELSE TRUE

\* if (startDate || endDate) data = data.filter(...)
DateFiltered(data, query) ==
    IF Truthy(query.startDate) \/ Truthy(query.endDate)
    THEN SelectSeq(data, LAMBDA record : InDateRange(record, query))
    ELSE data

\* array.slice(0, end) with end a number or NaN
SliceTo(array, end) ==
    LET n == IF end = NaN THEN 0
             ELSE IF end.v < 0
             THEN (IF Len(array) + end.v < 0 THEN 0 ELSE Len(array) + end.v)
             ELSE IF end.v > Len(array) THEN Len(array) ELSE end.v
    IN SubSeq(array, 1, n)

DefaultLimit == 100

\* parseInt(limit), limit = 100 when the query has none
SearchLimit(query) ==
    IF query.limit = Undefined THEN Num(DefaultLimit) ELSE ParseInt(query.limit)

\* the three filters on the catalog
SearchFilter(metadataFiles, query) ==
    SelectSeq(metadataFiles,
              LAMBDA f : /\ Truthy(query.session) => f.session = query.session
                         /\ Truthy(query.camera) => f.camera = query.camera
                         /\ Truthy(query.anomalyType) =>
                                f.anomalyType = query.anomalyType)

\* hasGPS is given and the entry is on the wrong side of it: continue
SkippedByGPSFilter(gpsData, query) ==
    /\ query.hasGPS # Undefined
    /\ \/ query.hasGPS = "true" /\ Len(gpsData) = 0
       \/ query.hasGPS # "true" /\ Len(gpsData) > 0

RECURSIVE SearchFiles(_, _, _, _, _)
\* for (const file of filteredFiles.slice(...)) try { ... } catch { log }
SearchFiles(e, query, filteredFiles, i, acc) ==
    IF i > Len(filteredFiles) \/ acc.crashed THEN acc
    ELSE LET file == filteredFiles[i]
             read == ReadCSV(e, file.path)
             data == DateFiltered(read.value, query)
             gpsData == ExtractGPSData(data, file.session, file.camera,
                                       file.anomalyType)
             images == GetImagesInDirectory(e, PathJoin(Dirname(file.path),
                                                        "images")).value
         IN IF read.state = "unhandled" THEN [acc EXCEPT !.crashed = TRUE]
            ELSE IF read.state = "rejected" \/ SkippedByGPSFilter(gpsData, query)
            THEN SearchFiles(e, query, filteredFiles, i + 1, acc)
            ELSE SearchFiles(e, query, filteredFiles, i + 1,
                     [acc EXCEPT !.results = Append(@,
                         [session |-> file.session,
                          camera |-> file.camera,
                          anomalyType |-> file.anomalyType,
                          count |-> Len(data),
                          imageCount |-> Len(images),
                          gpsCount |-> Len(gpsData),
                          hasGPS |-> Len(gpsData) > 0,
                          data |-> data,
                          gps |-> gpsData,
                          images |-> Slice(images, 5)])])

\* the handler: what it responds, or that the process died before it could
Search(e, query) ==
    LET metadataFiles == ScanForMetadataFiles(e, BasePath)
        filteredFiles == SearchFilter(metadataFiles.value, query)
        searched == SearchFiles(e, query,
                                SliceTo(filteredFiles, SearchLimit(query)), 1,
                                [results |-> <<>>, crashed |-> FALSE])
        results == searched.results
    IN IF metadataFiles.state = "rejected"
       THEN [crashed |-> FALSE, status |-> 500, body |-> [success |-> FALSE]]
       ELSE IF searched.crashed THEN [crashed |-> TRUE]
       ELSE [crashed |-> FALSE, status |-> 200,
             body |-> [success |-> TRUE,
                       resultCount |-> Len(results),
                       totalRecords |-> SumOf(results, "count", 1),
                       totalImages |-> SumOf(results, "imageCount", 1),
                       totalGPSPoints |-> SumOf(results, "gpsCount", 1),
                       resultsWithGPS |->
                           Len(SelectSeq(results, LAMBDA r : r.hasGPS)),
                       results |-> results]]

\* the tables of the search requests and their rows
SearchedTable == <<"A", "cam1", "crack", "metadata.csv">>

OtherTable == <<"B", "cam1", "pothole", "metadata.csv">>

SearchRowUniverse ==
    {MakeRow(cells) :
        cells \in [latitude : {"10.0", "95"}, lng : {"30"},
                   timestamp : {Absent, "2024-01-01", "2024-01-03"}]}

SearchContents ==
    UNION { {(SearchedTable :> rows) @@ g : rows \in SeqUpTo(SearchRowUniverse, MaxRows)}
            : g \in ContentsOver(files \ {SearchedTable}) }

SearchQueries ==
    [session : {Undefined, "A"}, camera : {Undefined},
     anomalyType : {Undefined},
     startDate : {Undefined, "2024-01-02"},
     endDate : {Undefined, "2024-01-02"},
     hasGPS : {Undefined, "true", "false"},
     limit : {Undefined, "1"}]

InitSearch ==
    /\ files \in {fs \in SUBSET {SearchedTable, OtherTable} : SearchedTable \in fs}
    /\ dirs = DirsOf(files)
    /\ content \in SearchContents
    /\ env = NoEnv
    /\ input = NoInput
    /\ output = NoOutput
    /\ alive = TRUE

\* a client requests GET /api/search?...
GetSearch ==
    /\ alive
    /\ output.op = "none"
    /\ \E query \in SearchQueries, l \in ListingsOver(dirs), rf \in OneReadFault :
          LET e == [listing |-> l, readdirFail |-> {}, statFail |-> {},
                    readFault |-> rf]
              r == Search(e, query)
          IN /\ env' = e
             /\ input' = [query |-> query]
             /\ alive' = ~r.crashed
             /\ output' = Answer("search", r)
    /\ UNCHANGED <<dirs, files, content>>

NextSearch == GetSearch \/ Finish

SpecSearch == InitSearch /\ [][NextSearch]_vars

(***************************************************************************)
(* Properties of the search (checked under SpecSearch)                     *)
(***************************************************************************)
SearchResults ==
    IF output.op = "search" /\ output.responded /\ output.status = 200
    THEN output.body.results ELSE <<>>

\* C22: recordIndex of every GPS point returned is the 0-based position of
\* the row it comes from in the row sequence of its source table, also in
\* /api/search when startDate or endDate removed rows before the extraction.
C22_RecordIndexIsSourcePosition ==
    \A k \in 1..Len(SearchResults) :
        LET result == SearchResults[k]
            rows == content[MetadataPath(result.session, result.camera,
                                         result.anomalyType)]
        IN \A j \in 1..Len(result.gps) :
              /\ result.gps[j].recordIndex < Len(rows)
              /\ rows[result.gps[j].recordIndex + 1] =
                     result.gps[j].originalRecord

(***************************************************************************)
(* GET /api/images/:session/:camera/:anomalyType                           *)
(***************************************************************************)
\* path.join(DATA_PATH, session, camera, anomalyType, 'images')
ImagesPathOf(session, camera, anomalyType) ==
    <<session, camera, anomalyType, "images">>

\* a variant of TableImages without the fs.access test
TableImagesUnchecked(e, session, camera, anomalyType) ==
    LET imageFiles == GetImagesInDirectory(e, ImagesPathOf(session, camera,
                                                           anomalyType)).value
    IN [crashed |-> FALSE, status |-> 200,
        body |-> [success |-> TRUE, count |-> Len(imageFiles),
                  images |-> imageFiles]]

\* the handler: fs.access rejects for a path that does not exist, and the
\* handler answers 404 before it lists anything
TableImages(e, session, camera, anomalyType) ==
    LET imagesPath == ImagesPathOf(session, camera, anomalyType)
        imageFiles == GetImagesInDirectory(e, imagesPath).value
    IN IF imagesPath \notin dirs \cup files
       THEN [crashed |-> FALSE, status |-> 404, body |-> [success |-> FALSE]]
       ELSE [crashed |-> FALSE, status |-> 200,
             body |-> [success |-> TRUE, count |-> Len(imageFiles),
                       images |-> imageFiles]]

InitImageEndpoints ==
    /\ files \in SUBSET (ImageCandidateFiles \cup {SearchedTable})
    /\ dirs = DirsOf(files)
    /\ content \in ContentsOver(files \cap TablePaths)
    /\ env = NoEnv
    /\ input = NoInput
    /\ output = NoOutput
    /\ alive = TRUE

GetTableImages ==
    /\ alive
    /\ output.op = "none"
    /\ \E q \in TableRequests, e \in TableEnvs :
          LET r == TableImages(e, q.session, q.camera, q.anomalyType)
          IN /\ env' = e
             /\ input' = q
             /\ alive' = ~r.crashed
             /\ output' = Answer("images", r)
    /\ UNCHANGED <<dirs, files, content>>

NextImageEndpoints == GetTableImages \/ GetTableWithImages \/ Finish

SpecImageEndpoints == InitImageEndpoints /\ [][NextImageEndpoints]_vars

(***************************************************************************)
(* Properties of the endpoints that list the images of one triple (checked *)
(* under SpecImageEndpoints)                                               *)
(***************************************************************************)
RequestedImagesPath ==
    ImagesPathOf(input.session, input.camera, input.anomalyType)

ImagesDirectoryMissing == RequestedImagesPath \notin dirs \cup files

\* the directory exists and none of its items is an image file
ImagesDirectoryWithoutImages ==
    /\ RequestedImagesPath \in dirs
    /\ \A item \in Children(RequestedImagesPath) :
          ~(PathJoin(RequestedImagesPath, item) \in files /\ IsImageName(item))

\* the images a response lists
ListedImages ==
    IF output.op = "images" THEN output.body.images
    ELSE output.body.images.data

\* C23, as stated: every endpoint that lists the images of a triple answers
\* a missing images directory as it answers an existing one without image
\* files: with the same (success) status and an empty image list.
C23_MissingAsEmpty ==
    (/\ output.op \in {"images", "metadata-with-images"}
     /\ output.responded
     /\ ImagesDirectoryMissing \/ ImagesDirectoryWithoutImages) =>
        /\ output.status = 200
        /\ ListedImages = <<>>

\* C23, amended: /api/metadata-with-images answers a missing images directory
\* as it answers one without image files, with status 200 and an empty image
\* list; /api/images answers 200 and an empty list for an existing directory
\* without image files, and 404 without an image list for a missing one.
C23_MissingAsEmptyButImages ==
    (/\ output.op \in {"images", "metadata-with-images"}
     /\ output.responded
     /\ ImagesDirectoryMissing \/ ImagesDirectoryWithoutImages) =>
        /\ (output.op = "metadata-with-images" \/ ImagesDirectoryWithoutImages) =>
              /\ output.status = 200
              /\ ListedImages = <<>>
        /\ (output.op = "images" /\ ImagesDirectoryMissing) =>
              /\ output.status = 404
              /\ ~output.body.success

\* /api/images on a triple whose directory holds a table and no images
\* directory: 404
C23_Witness ==
    /\ output.op = "images"
    /\ SearchedTable \in files
    /\ input.session = "A" /\ input.camera = "cam1" /\ input.anomalyType = "crack"
    /\ ImagesDirectoryMissing
    /\ output.status = 404

(***************************************************************************)
(* GET /api/dashboard                                                      *)
(***************************************************************************)
MetricsPath == <<"floMobility123_F1", "system_metrics.csv">>

\* data[data.length - 1] || null
LastOf(data) == IF Len(data) > 0 THEN data[Len(data)] ELSE Null

\* summary.gps and summary.systemMetrics: the read in its own try/catch
AvailabilityOf(read) ==
    IF read.state = "fulfilled"
    THEN [available |-> TRUE, recordCount |-> Len(read.value),
          lastRecord |-> LastOf(read.value)]
    ELSE [available |-> FALSE, error |-> "error.message"]

\* `/data/${session}/${camera}/${anomalyType}/images/${name}`
SampleImageUrl(file, name) ==
    <<"data", file.session, file.camera, file.anomalyType, "images", name>>

\* the object assigned to anomalySummary[file.camera][file.anomalyType]
SummaryEntry(file, data, gpsData, images) ==
    [session |-> file.session,
     recordCount |-> Len(data),
     imageCount |-> Len(images),
     gpsCount |-> Len(gpsData),
     hasGPS |-> Len(gpsData) > 0,
     lastDetection |-> LastOf(data),
     sampleImages |->
         [k \in 1..Len(Slice(images, 3)) |->
             [name |-> images[k].name,
              url |-> SampleImageUrl(file, images[k].name)]],
     sampleGPS |-> Slice(gpsData, 3)]

\* if (!anomalySummary[file.camera]) anomalySummary[file.camera] = {};
\* anomalySummary[file.camera][file.anomalyType] = entry
AssignSummary(anomalySummary, file, entry) ==
    LET key == <<file.camera, file.anomalyType>>
    IN (key[1] :> ((key[2] :> entry) @@
                   (IF key[1] \in DOMAIN anomalySummary
                    THEN anomalySummary[key[1]] ELSE <<>>)))
       @@ anomalySummary

RECURSIVE SummarizeFiles(_, _, _, _)
\* for (const file of metadataFiles) try { ... } catch { log }, from file i on
SummarizeFiles(e, metadataFiles, i, acc) ==
    IF i > Len(metadataFiles) THEN acc
    ELSE LET file == metadataFiles[i]
             data == ReadCSV(e, file.path)
             gpsData == ExtractGPSData(data.value, file.session, file.camera,
                                       file.anomalyType)
             images == GetImagesInDirectory(e, PathJoin(Dirname(file.path),
                                                        "images")).value
         IN IF data.state = "unhandled"
            THEN [acc EXCEPT !.crashed = TRUE]
            ELSE IF data.state = "rejected"
            THEN SummarizeFiles(e, metadataFiles, i + 1, acc)
            ELSE SummarizeFiles(e, metadataFiles, i + 1,
                     [acc EXCEPT
                         !.totalImages = @ + Len(images),
                         !.totalGPSPoints = @ + Len(gpsData),
                         !.filesWithGPS = IF Len(gpsData) > 0 THEN @ + 1 ELSE @,
                         !.anomalySummary =
                             AssignSummary(@, file,
                                 SummaryEntry(file, data.value, gpsData,
                                              images))])

\* ((filesWithGPS / metadataFiles.length) * 100).toFixed(1), in tenths of a
\* percent; 0 / 0 is NaN
Coverage(filesWithGPS, length) ==
    IF length = 0 THEN NaN
    ELSE Num(ToFixed((filesWithGPS * 100 * Pow10(Digits)) \div length,
                     Num(1)).n)

\* the handler: what it responds, or that the process died before it could
Dashboard(e) ==
    LET gps == ReadCSV(e, GpsLogPath)
        metrics == ReadCSV(e, MetricsPath)
        metadataFiles == ScanForMetadataFiles(e, BasePath)
        summarized == SummarizeFiles(e, metadataFiles.value, 1,
                          [anomalySummary |-> <<>>, totalImages |-> 0,
                           totalGPSPoints |-> 0, filesWithGPS |-> 0,
                           crashed |-> FALSE])
    IN IF gps.state = "unhandled" \/ metrics.state = "unhandled"
       THEN [crashed |-> TRUE]
       ELSE IF metadataFiles.state = "rejected"
       THEN [crashed |-> FALSE, status |-> 500, body |-> [success |-> FALSE]]
       ELSE IF summarized.crashed THEN [crashed |-> TRUE]
       ELSE [crashed |-> FALSE, status |-> 200,
             body |-> [success |-> TRUE,
                       summary |->
                           [gps |-> AvailabilityOf(gps),
                            systemMetrics |-> AvailabilityOf(metrics),
                            anomalies |-> summarized.anomalySummary,
                            totalMetadataFiles |-> Len(metadataFiles.value),
                            totalImages |-> summarized.totalImages,
                            totalGPSPointsFromMetadata |->
                                summarized.totalGPSPoints,
                            filesWithGPS |-> summarized.filesWithGPS,
                            metadataGPSCoverage |->
                                Coverage(summarized.filesWithGPS,
                                         Len(metadataFiles.value))]]]

\* the tree of the dashboard: the same camera and anomaly type in two
\* sessions, a table two levels and one four levels below the root, images
\* next to two of the tables, the GPS log
DashboardTables ==
    { <<"A", "cam1", "crack", "metadata.csv">>,
      <<"B", "cam1", "crack", "metadata.csv">>,
      <<"A", "cam2", "metadata.csv">>,
      <<"A", "cam1", "crack", "deep", "metadata.csv">> }

DashboardFiles ==
    DashboardTables \cup
    { <<"A", "cam1", "crack", "images", "x.jpg">>,
      <<"A", "cam2", "images", "x.jpg">>,
      GpsLogPath }

InitDashboard ==
    /\ files \in SubsetsUpTo(DashboardFiles, MaxFiles)
    /\ dirs = DirsOf(files)
    /\ content \in ContentsOver(files \cap (DashboardTables \cup {GpsLogPath}))
    /\ env = NoEnv
    /\ input = NoInput
    /\ output = NoOutput
    /\ alive = TRUE

\* a client requests GET /api/dashboard
GetDashboard ==
    /\ alive
    /\ output.op = "none"
    /\ \E l \in ListingsOver(dirs), fl \in ViewScanFaults, rf \in OneReadFault :
          LET e == [listing |-> l,
                    readdirFail |-> {c[2] : c \in {x \in fl : x[1] = "readdir"}},
                    statFail |-> {c[2] : c \in {x \in fl : x[1] = "stat"}},
                    readFault |-> rf]
              r == Dashboard(e)
          IN /\ env' = e
             /\ alive' = ~r.crashed
             /\ output' = Answer("dashboard", r)
    /\ UNCHANGED <<dirs, files, content, input>>

NextDashboard == GetDashboard \/ GetMetadataScan \/ Finish

SpecDashboard == InitDashboard /\ [][NextDashboard]_vars

(***************************************************************************)
(* Properties of the dashboard (checked under SpecDashboard)               *)
(***************************************************************************)
DashboardSent ==
    output.op = "dashboard" /\ output.responded /\ output.status = 200

\* the entries of the anomaly summary, as (camera, anomalyType) keys
SummaryKeys ==
    LET s == output.body.summary.anomalies
    IN UNION { {<<camera, type>> : type \in DOMAIN s[camera]}
               : camera \in DOMAIN s }

RECURSIVE SumOverKeys(_, _)
SumOverKeys(keys, field) ==
    IF keys = {} THEN 0
    ELSE LET k == CHOOSE x \in keys : TRUE
         IN output.body.summary.anomalies[k[1]][k[2]][field]
            + SumOverKeys(keys \ {k}, field)

\* the catalog entries of this request whose table was read
ReadEntries ==
    LET metadataFiles == ScanForMetadataFiles(env, BasePath).value
    IN {i \in 1..Len(metadataFiles) :
           ReadCSV(env, metadataFiles[i].path).state = "fulfilled"}

\* C24: the anomaly summary of the dashboard holds one entry for every
\* catalog entry that was read, and the sums of imageCount and gpsCount over
\* its entries are the reported totalImages and totalGPSPointsFromMetadata.
C24_SummaryAccountsForTotals ==
    DashboardSent =>
        /\ Cardinality(SummaryKeys) = Cardinality(ReadEntries)
        /\ SumOverKeys(SummaryKeys, "imageCount")
               = output.body.summary.totalImages
        /\ SumOverKeys(SummaryKeys, "gpsCount")
               = output.body.summary.totalGPSPointsFromMetadata

(***************************************************************************)
(* Properties of the reported images locations (checked under              *)
(* SpecDashboard)                                                          *)
(***************************************************************************)
\* the directory the handlers list the images of a table from: the images
\* directory next to the table with relative path tablePath
ListedFrom(tablePath) == PathJoin(Dirname(tablePath), "images")

\* the entries of the scan response whose table was read
ScannedEntries ==
    {k \in 1..Len(output.body.files) :
        "imagesPath" \in DOMAIN output.body.files[k]}

\* the tables of this request that a summary entry of the dashboard may
\* stand for
TablesOf(camera, type) ==
    LET metadataFiles == ScanForMetadataFiles(env, BasePath).value
    IN {metadataFiles[i].relativePath : i \in
           {j \in ReadEntries :
               /\ metadataFiles[j].camera = camera
               /\ metadataFiles[j].anomalyType = type
               /\ metadataFiles[j].session =
                      output.body.summary.anomalies[camera][type].session}}

\* the directory a sample image URL /data/<directory>/<name> names
DirectoryOfUrl(url) == Dirname(Tail(url))

\* C25: the images location that the scan and the dashboard report for a
\* catalog entry (imagesPath, the sample image URLs) is the directory the
\* images were listed from, the images directory next to the entry's table,
\* for entries of every depth.
C25_ReportedImagesLocationIsListed ==
    /\ (output.op = "metadataScan" /\ output.responded /\ output.status = 200) =>
           \A k \in ScannedEntries :
               output.body.files[k].imagesPath
                   = ListedFrom(output.body.files[k].path)
    /\ DashboardSent =>
           \A key \in SummaryKeys :
               LET entry == output.body.summary.anomalies[key[1]][key[2]]
               IN \A k \in 1..Len(entry.sampleImages) :
                      \E tablePath \in TablesOf(key[1], key[2]) :
                          DirectoryOfUrl(entry.sampleImages[k].url)
                              = ListedFrom(tablePath)

=============================================================================
